---- MODULE Spec2Model ----
(***************************************************************************)
(* A model of the eqWAlizer stub pipeline of the Erlang Language Platform: *)
(* the database inputs written by Change::apply (crates/base_db/src/       *)
(* change.rs), the per-module stub stages and the custom-override lookups  *)
(* of crates/eqwalizer/src/db.rs.                                          *)
(*                                                                         *)
(* Strings are sequences of one-character strings, so that splitting an    *)
(* encoded name 'Module:Name' at a colon is computed, not assumed.  A      *)
(* Result<T, Error> is a record [tag, val] with tag "Ok" or "Err"; a query *)
(* that panics (unwrap of None, index out of bounds) yields tag "Panic".   *)
(* An Option<T> is NONE or Some(v).  A BTreeMap is a function whose DOMAIN *)
(* is the set of its keys.                                                 *)
(***************************************************************************)
EXTENDS Integers, Sequences, FiniteSets, TLC

\* ------------------------------------------------------------------ bounds

\* Largest number of declarations in one file text.
MaxForms == 2

\* ------------------------------------------------------- Result and Option

Ok(v) == [tag |-> "Ok", val |-> v]
Err(e) == [tag |-> "Err", val |-> e]
Panic == [tag |-> "Panic", val |-> <<>>]

IsOk(r) == r.tag = "Ok"
IsErr(r) == r.tag = "Err"

NONE == [some |-> FALSE]
Some(v) == [some |-> TRUE, v |-> v]

\* BTreeMap::get
Get(map, k) == IF k \in DOMAIN map THEN Some(map[k]) ELSE NONE

\* the empty BTreeMap
EmptyMap == [k \in {} |-> k]

\* The variants of ast::Error that the pipeline produces; the payload is a
\* tuple of strings.
ModuleNotFound(name) == [kind |-> "ModuleNotFound", arg |-> name]
BEAMNotFound(path) == [kind |-> "BEAMNotFound", arg |-> path]
TypeConversionError(detail) == [kind |-> "TypeConversionError", arg |-> detail]
ParseErrorOf(perr) == [kind |-> "ParseError", arg |-> perr]
ConversionError(detail) == [kind |-> "ConversionError", arg |-> detail]

\* ------------------------------------------------------------------ names

\* rank of a character in the byte order of str
CharRank(c) ==
    CASE c = "." -> 0
      [] c = "/" -> 1
      [] c = ":" -> 2
      [] c = "a" -> 3
      [] c = "f" -> 4
      [] c = "g" -> 5
      [] OTHER -> 6

RECURSIVE StrLess(_, _)
\* str's Ord: lexicographic by bytes
StrLess(s, t) ==
    IF t = <<>> THEN FALSE
    ELSE IF s = <<>> THEN TRUE
    ELSE IF s[1] # t[1] THEN CharRank(s[1]) < CharRank(t[1])
    ELSE StrLess(Tail(s), Tail(t))

Id(name, arity) == [name |-> name, arity |-> arity]

\* Ord of Id: by name, then by arity (the order BTreeMap<Id, _> iterates in)
IdLess(x, y) ==
    \/ StrLess(x.name, y.name)
    \/ x.name = y.name /\ x.arity < y.arity

ColonPositions(s) == {i \in 1..Len(s) : s[i] = ":"}

MinOf(S) == CHOOSE x \in S : \A y \in S : x <= y

\* str::split_once(':') : the parts before and after the FIRST colon
split_once(s) ==
    IF ColonPositions(s) = {} THEN NONE
    ELSE LET i == MinOf(ColonPositions(s))
         IN  Some(<<SubSeq(s, 1, i - 1), SubSeq(s, i + 1, Len(s))>>)

RECURSIVE split(_)
\* str::split(":").collect() : every colon-separated segment, in order
split(s) ==
    IF ColonPositions(s) = {} THEN <<s>>
    ELSE LET i == MinOf(ColonPositions(s))
         IN  <<SubSeq(s, 1, i - 1)>> \o split(SubSeq(s, i + 1, Len(s)))

\* the reserved modules
EQWALIZER_TYPES == <<"eqwalizer_types">>
EQWALIZER_SPECS == <<"eqwalizer_specs">>

ModA == <<"a">>
Modules == {ModA, EQWALIZER_TYPES, EQWALIZER_SPECS}

NameF == <<"f">>
NameAF == <<"a", ":", "f">>
NameAFG == <<"a", ":", "f", ":", "g">>
NameFG == <<"f", ":", "g">>

\* ------------------------------------------------------- forms and texts

Base(n) == [k |-> "base", n |-> n]

\* type expressions: a reference to a type of the same module, a reference
\* to a type of a named module, a tuple type, a union type
LocalType(id) == [k |-> "local", id |-> id]
RemoteType(module, id) == [k |-> "remote", module |-> module, id |-> id]
TupleType(elems) == [k |-> "tuple", elems |-> elems]
UnionType(alts) == [k |-> "union", alts |-> alts]

Form(kind, name, arity, body) ==
    [kind |-> kind, id |-> Id(name, arity), body |-> Base(body)]

\* the -module(...) attribute every parsed file carries
ModuleForm == [kind |-> "module", id |-> Id(<<>>, 0), body |-> Base("module")]

\* a form the stub expander cannot convert
BadForm == [kind |-> "bad", id |-> Id(<<>>, 0), body |-> Base("bad")]

\* declarations of types: under a plain name, and under encoded names
\* 'Module:Name' with one colon and with two
TypeForms ==
    { Form("type", NameF, 0, "integer"),
      Form("type", NameAF, 0, "atom"),
      Form("type", NameAFG, 0, "binary") }

\* declarations of function specs, plain and overloaded
SpecForms ==
    { Form(k, n, 0, k) : k \in {"spec", "overloaded"}, n \in {NameF, NameAF, NameAFG} }

OwnForms == {f \in TypeForms \cup SpecForms : f.id.name = NameF}

\* spec.md, section 3: within one stub an Id is in at most one of specs and
\* overloaded_specs
OneSpecForm(fs) ==
    \A x \in fs, y \in fs :
        (x.kind = "spec" /\ y.kind = "overloaded") => x.id # y.id

\* the texts of a module with at most MaxForms of the given declarations
TextsOver(forms) ==
    { [parse |-> "ok", forms |-> fs \cup {ModuleForm}]
        : fs \in {s \in SUBSET forms : Cardinality(s) <= MaxForms /\ OneSpecForm(s)} }

\* the empty string, which holds no form at all
BlankText == [parse |-> "ok", forms |-> {}]

\* texts that fail: one the parser rejects, one the expander rejects
FailingTexts ==
    { [parse |-> "err", forms |-> {}],
      [parse |-> "ok", forms |-> {ModuleForm, BadForm}] }

Files == {"f1", "f2"}

\* the texts a Change may give a file: file f1 holds declarations under
\* plain names; file f2 holds type declarations or spec declarations under
\* plain and encoded names
TextsOf(f) ==
    FailingTexts \cup
    IF f = "f1" THEN TextsOver(OwnForms)
    ELSE TextsOver(TypeForms) \cup TextsOver(SpecForms)

FilePath(f) == <<"/src/", f, ".erl">>

\* --------------------------------------------------------- database inputs

\* One project is modelled; its ProjectId is 0.

\* AppData of a file: the module the file defines in the project's module
\* index, the kind of its application and the application's ebin directory
NoAppData == [present |-> FALSE]
AppData(module, app_type, ebin) ==
    [present |-> TRUE, module |-> module, app_type |-> app_type, ebin_path |-> ebin]

EbinDir == <<"/otp/ebin">>

\* the application structures a Change may install: file f1 is absent, or
\* module a of a project application, or module a of an OTP application;
\* file f2 is absent or one of the two reserved modules
AppStructures ==
    { [f \in Files |-> IF f = "f1" THEN a1 ELSE a2]
        : a1 \in { NoAppData,
                   AppData(ModA, "App", NONE),
                   AppData(ModA, "Otp", Some(EbinDir)) },
          a2 \in { NoAppData,
                   AppData(EQWALIZER_TYPES, "App", NONE),
                   AppData(EQWALIZER_SPECS, "App", NONE) } }

\* module_index(project_id).file_for_module(module)
file_for_module(db, project_id, module) ==
    LET fs == { f \in Files : db.app_data[f].present /\ db.app_data[f].module = module }
    IN  IF fs = {} THEN NONE ELSE Some(CHOOSE f \in fs : TRUE)

\* db.file_app_data(file_id)
file_app_data(db, file_id) ==
    IF db.app_data[file_id].present THEN Some(db.app_data[file_id]) ELSE NONE

\* ------------------------------------------------------------- parsing

\* the external parser service: the forms of the text, or a parse error
request_parse(path, file_text) ==
    IF file_text.parse = "ok"
    THEN Ok([etf |-> file_text.forms])
    ELSE Err(<<path, "7", "syntax error", "P1711">>)

\* AstLoader::load_ast
load_ast(db, file_id, path) ==
    request_parse(path, db.file_text[file_id])

\* db.source_root(db.file_source_root(file_id)).path_for_file(&file_id):
\* the path of the file in the source root the reverse index names for it,
\* none when the file is not a member of that root
path_for_file(db, file_id) ==
    IF file_id \in db.source_root[db.file_source_root[file_id]]
    THEN Some(FilePath(file_id)) ELSE NONE

\* the requests module_ast sends to the parser service
module_ast_io(db, file_id) ==
    IF path_for_file(db, file_id) = NONE THEN <<>>
    ELSE IF file_app_data(db, file_id) = NONE THEN <<>>
    ELSE << <<"request_parse", FilePath(file_id)>> >>

\* module_ast (ide_db/src/erl_ast.rs); path_for_file(..).unwrap() panics
\* on none
module_ast(db, file_id) ==
    LET path == path_for_file(db, file_id)
    IN  IF path = NONE THEN Panic
        ELSE IF file_app_data(db, file_id) = NONE
        THEN Err(<<path.v, "none", "Unknown application", "L0003">>)
        ELSE load_ast(db, file_id, path.v)

\* the body of erl_ast_bytes, given what db.module_ast returned for the
\* file of the module
erl_ast_bytes_from(r) ==
    IF IsOk(r) \/ r.tag = "Panic" THEN r ELSE Err(ParseErrorOf(r.val))

\* EqwalizerErlASTStorage::erl_ast_bytes
erl_ast_bytes(db, project_id, module) ==
    LET file == file_for_module(db, project_id, module)
    IN  IF file = NONE THEN Err(ModuleNotFound(module))
        ELSE erl_ast_bytes_from(module_ast(db, file.v))

\* is_non_stub_form
is_non_stub_form(form) ==
    form.kind \in {"module", "fun_decl", "file", "elp_metadata", "behaviour",
                   "eqwalizer_nowarn_function", "eqwalizer_unlimited_refinement"}

\* ast::from_bytes(bytes, filter_stub)
from_bytes(bytes, filter_stub) ==
    Ok([forms |-> IF filter_stub
                  THEN {f \in bytes.etf : ~is_non_stub_form(f)}
                  ELSE bytes.etf])

\* ast::from_beam(contents)
from_beam(beam_contents) ==
    IF beam_contents.valid
    THEN Ok([forms |-> {f \in beam_contents.forms : ~is_non_stub_form(f)}])
    ELSE Err(ConversionError(<<"invalid beam">>))

\* the one .beam path of the model and what std::fs::read may find there
BeamPaths == { EbinDir \o <<"/">> \o ModA \o <<".beam">> }
NoBeam == [present |-> FALSE]
BeamOf(forms) == [present |-> TRUE, valid |-> TRUE, forms |-> forms]
BeamFiles ==
    { NoBeam,
      BeamOf({ModuleForm, Form("type", NameF, 0, "beam_type")}) }

\* ------------------------------------------------------- the stub stages

\* a from_beam_path that does not look at the kind of the application
from_beam_path_any_app(db, file_id, module) ==
    LET app_data == file_app_data(db, file_id)
    IN  IF app_data = NONE THEN NONE
        ELSE IF app_data.v.ebin_path = NONE THEN NONE
        ELSE Some(app_data.v.ebin_path.v \o <<"/">> \o module \o <<".beam">>)

\* from_beam_path: Some(<ebin>/<Module>.beam) for a module of an OTP
\* application with a known ebin directory
from_beam_path(db, file_id, module) ==
    LET app_data == file_app_data(db, file_id)
    IN  IF app_data = NONE THEN NONE
        ELSE IF app_data.v.app_type # "Otp" THEN NONE
        ELSE IF app_data.v.ebin_path = NONE THEN NONE
        ELSE Some(app_data.v.ebin_path.v \o <<"/">> \o module \o <<".beam">>)

\* the body of converted_stub, given what db.erl_ast_bytes returns when the
\* body reaches it; disk maps a path to what std::fs::read finds there
converted_from(db, disk, project_id, module, ast) ==
    LET file == file_for_module(db, project_id, module)
    IN  IF file # NONE
        THEN LET beam_path == from_beam_path(db, file.v, module)
             IN  IF beam_path # NONE
                 THEN IF beam_path.v \in DOMAIN disk /\ disk[beam_path.v].present
                      THEN from_beam(disk[beam_path.v])
                      ELSE Err(BEAMNotFound(beam_path.v))
                 ELSE IF ~IsOk(ast) THEN ast
                      ELSE from_bytes(ast.val, TRUE)
        ELSE Err(ModuleNotFound(module))

\* converted_stub
converted_stub(db, disk, project_id, module) ==
    converted_from(db, disk, project_id, module,
                   erl_ast_bytes(db, project_id, module))

\* a converted_stub that asks for the bytes of the parser before it looks
\* the module up
converted_stub_io_eager(db, project_id, module) ==
    << <<"erl_ast_bytes", module>> >>

\* what converted_stub reads outside its arguments, in order: the file
\* std::fs::read is called on, or the request for db.erl_ast_bytes and the
\* requests that makes
converted_stub_io(db, project_id, module) ==
    LET file == file_for_module(db, project_id, module)
    IN  IF file # NONE
        THEN LET beam_path == from_beam_path(db, file.v, module)
             IN  IF beam_path # NONE
                 THEN << <<"fs_read", beam_path.v>> >>
                 ELSE << <<"erl_ast_bytes", module>> >> \o module_ast_io(db, file.v)
        ELSE <<>>

\* a declaration as the stub holds it: the Id it was declared under and
\* its body
Decl(form) == [id |-> form.id, body |-> form.body]

DeclsOf(forms, kind) ==
    [x \in {f.id : f \in {g \in forms : g.kind = kind}} |->
        Decl(CHOOSE f \in forms : f.kind = kind /\ f.id = x)]

\* StubExpander::expand: the ModuleStub of the forms, or an error when a
\* form cannot be converted
expand(forms) ==
    IF \E f \in forms : f.kind = "bad"
    THEN Err(<<"bad form">>)
    ELSE Ok([types |-> DeclsOf(forms, "type"),
             records |-> DeclsOf(forms, "record"),
             specs |-> DeclsOf(forms, "spec"),
             overloaded_specs |-> DeclsOf(forms, "overloaded"),
             callbacks |-> <<>>,
             optional_callbacks |-> {}])

\* the body of expanded_stub, given what db.converted_stub returned
expanded_from(ast) ==
    IF ~IsOk(ast) THEN ast
    ELSE LET r == expand(ast.val.forms)
         IN  IF IsOk(r) THEN r ELSE Err(TypeConversionError(r.val))

\* expanded_stub
expanded_stub(db, disk, project_id, module) ==
    expanded_from(converted_stub(db, disk, project_id, module))

\* the declaration a type expression of a declaration of `module` refers
\* to, as <<module, id>>
RefOf(module, t) == IF t.k = "local" THEN <<module, t.id>> ELSE <<t.module, t.id>>

\* the modules of the project
ProjectModules(db) == {db.app_data[f].module : f \in {g \in Files : db.app_data[g].present}}

\* what db.expanded_stub returns, module by module, for the modules the
\* checker of `module` can ask for
ExpandedStubs(db, disk, project_id, module) ==
    [m \in ProjectModules(db) \cup {module} |-> expanded_stub(db, disk, project_id, m)]

\* the stubs with the one of `module` replaced by own
WithOwn(stubs, module, own) ==
    [m \in DOMAIN stubs |-> IF m = module THEN own ELSE stubs[m]]

\* the type declarations the contractivity checker looks up, module by
\* module: those of the expanded stub of the module
TypeDecls(stubs) ==
    [m \in DOMAIN stubs |-> IF IsOk(stubs[m]) THEN stubs[m].val.types ELSE EmptyMap]

\* the declaration r = <<module, id>> is among the declarations decls
DeclaredIn(decls, r) == r[1] \in DOMAIN decls /\ r[2] \in DOMAIN decls[r[1]]

\* an expansion that takes only a base type for a type constructor
is_constructor_base_only(t) == t.k = "base"

\* spec.md, section 4.4 (3): what produces a concrete type constructor
is_constructor(t) == t.k \in {"base", "tuple"}

\* the type expression t of a declaration of `module` is a reference that
\* re-enters a visited declaration
ReEnters(module, t, visited) ==
    t.k \in {"local", "remote"} /\ RefOf(module, t) \in visited

\* what the expansion of t goes on with: the body of the declaration a
\* reference names, now visited, or the parts of t
Expansion(decls, module, t, visited) ==
    CASE t.k \in {"local", "remote"} ->
            LET r == RefOf(module, t)
            IN  IF ~DeclaredIn(decls, r) THEN {}
                ELSE {[module |-> r[1], t |-> decls[r[1]][r[2]].body,
                       visited |-> visited \cup {r}]}
      [] t.k = "union" ->
            {[module |-> module, t |-> t.alts[i], visited |-> visited] : i \in DOMAIN t.alts}
      [] t.k = "tuple" ->
            {[module |-> module, t |-> t.elems[i], visited |-> visited] : i \in DOMAIN t.elems}
      [] OTHER -> {}

RECURSIVE is_productive(_, _, _, _)
\* spec.md, section 4.4 (3): symbolic expansion of the type expression t of
\* a declaration of `module` with a visited-set cycle guard: a reference
\* that re-enters a visited declaration before a type constructor was
\* produced is a violation
is_productive(decls, module, t, visited) ==
    IF is_constructor(t) THEN TRUE
    ELSE IF ReEnters(module, t, visited) THEN FALSE
    ELSE \A n \in Expansion(decls, module, t, visited) :
            is_productive(decls, n.module, n.t, n.visited)

\* StubContractivityChecker::new(db, project_id, module).check(stub): the
\* stub with a verdict per type declaration
contractivity_check(stubs, module, stub) ==
    [stub |-> stub,
     productive |-> [x \in DOMAIN stub.types |->
                        is_productive(TypeDecls(stubs), module,
                                      stub.types[x].body, {<<module, x>>})]]

\* a stage that turns every error of the stage before it into its own
contractive_from_rewrapped(stubs, module) ==
    IF ~IsOk(stubs[module]) THEN Err(TypeConversionError(<<"contractivity">>))
    ELSE Ok(contractivity_check(stubs, module, stubs[module].val))

\* a stage that fails when a type of the module is not productive
contractive_from_fatal(stubs, module) ==
    IF ~IsOk(stubs[module]) THEN stubs[module]
    ELSE LET v == contractivity_check(stubs, module, stubs[module].val)
         IN  IF \A x \in DOMAIN v.productive : v.productive[x] THEN Ok(v)
             ELSE Err(TypeConversionError(<<"contractivity">>))

\* the body of contractive_stub, given what db.expanded_stub returns
contractive_from(stubs, module) ==
    IF ~IsOk(stubs[module]) THEN stubs[module]
    ELSE Ok(contractivity_check(stubs, module, stubs[module].val))

\* contractive_stub
contractive_stub(db, disk, project_id, module) ==
    contractive_from(ExpandedStubs(db, disk, project_id, module), module)

\* the type expressions a type expression is made of
Parts(t) ==
    CASE t.k = "tuple" -> {t.elems[i] : i \in DOMAIN t.elems}
      [] t.k = "union" -> {t.alts[i] : i \in DOMAIN t.alts}
      [] OTHER -> {}

RECURSIVE TypeRefs(_, _)
\* the declarations a type expression refers to, at any depth
TypeRefs(module, t) ==
    IF t.k \in {"local", "remote"} THEN {RefOf(module, t)}
    ELSE UNION {TypeRefs(module, p) : p \in Parts(t)}

\* what db.contractive_stub returns, module by module, for the modules the
\* checker of `module` can ask for
ContractiveStubs(db, disk, project_id, module) ==
    [m \in ProjectModules(db) \cup {module} |-> contractive_stub(db, disk, project_id, m)]

\* a validation that looks at the declaration alone, not at what it refers to
is_valid_shallow(v_stubs, r, visited) ==
    /\ r[1] \in DOMAIN v_stubs
    /\ IsOk(v_stubs[r[1]])
    /\ r[2] \in DOMAIN v_stubs[r[1]].val.stub.types
    /\ v_stubs[r[1]].val.productive[r[2]]

RECURSIVE is_valid(_, _, _)
\* spec.md, section 4.4 (4): the declaration r = <<module, id>> exists, is
\* productive, and so is, in turn, every declaration it refers to
is_valid(v_stubs, r, visited) ==
    /\ r[1] \in DOMAIN v_stubs
    /\ IsOk(v_stubs[r[1]])
    /\ r[2] \in DOMAIN v_stubs[r[1]].val.stub.types
    /\ v_stubs[r[1]].val.productive[r[2]]
    /\ \A q \in TypeRefs(r[1], v_stubs[r[1]].val.stub.types[r[2]].body) :
          \/ q \in visited \cup {r}
          \/ is_valid(v_stubs, q, visited \cup {r})

\* TransitiveChecker::new(db, project_id, module).check(&v_stub): the stub
\* of the declarations that are valid
transitive_check(v_stubs, module, v_stub) ==
    [v_stub.stub EXCEPT
        !.types = [x \in {y \in DOMAIN v_stub.stub.types :
                            is_valid(v_stubs, <<module, y>>, {})}
                     |-> v_stub.stub.types[x]]]

\* the body of transitive_stub, given what db.contractive_stub returns
transitive_from(v_stubs, module) ==
    IF ~IsOk(v_stubs[module]) THEN v_stubs[module]
    ELSE Ok(transitive_check(v_stubs, module, v_stubs[module].val))

\* transitive_stub
transitive_stub(db, disk, project_id, module) ==
    transitive_from(ContractiveStubs(db, disk, project_id, module), module)

\* ModuleStub::to_bytes and the other encoders
to_bytes(x) == <<"bytes", x>>

\* transitive_stub_bytes
transitive_stub_bytes(db, disk, project_id, module) ==
    LET stub == transitive_stub(db, disk, project_id, module)
    IN  IF ~IsOk(stub) THEN stub ELSE Ok(to_bytes(stub.val))

\* ------------------------------------------------------ custom overrides

\* The loop `for (id, decl) in map.iter() { result.entry(module(id))
\* .or_default().insert(new_id(id), decl.clone()) }`: entries are visited in
\* ascending Id order and a later insert replaces an earlier one.
ReKeyed(map, key) ==
    [m \in {key[x][1] : x \in DOMAIN map} |->
        [y \in {key[x][2] : x \in {z \in DOMAIN map : key[z][1] = m}} |->
            LET from == {x \in DOMAIN map : key[x][1] = m /\ key[x][2] = y}
                last == CHOOSE x \in from : \A z \in from : z = x \/ IdLess(z, x)
            IN  map[last]]]

\* custom.get(&module).and_then(|m| m.get(&id))
GetIn(custom, module, id) ==
    IF module \in DOMAIN custom THEN Get(custom[module], id) ELSE NONE

\* the split of custom_types and custom_fun_specs:
\* id.name.split_once(':').unwrap()
OnceModule(id) == split_once(id.name).v[1]
OnceId(id) == Id(split_once(id.name).v[2], id.arity)

\* the split of custom_overloaded_fun_specs: parts = id.name.split(":"),
\* parts[0] and parts[1]
PartsModule(id) == split(id.name)[1]
PartsId(id) == Id(split(id.name)[2], id.arity)

\* custom_types without the recovery of ModuleNotFound
custom_types_from_strict(r) ==
    IF r.tag = "Panic" THEN Panic
    ELSE IF IsOk(r)
    THEN IF \E id \in DOMAIN r.val.types : split_once(id.name) = NONE
         THEN Panic
         ELSE Ok(ReKeyed(r.val.types,
                         [x \in DOMAIN r.val.types |->
                             <<OnceModule(x), OnceId(x)>>]))
    ELSE r

\* custom_types that recovers every error of the reserved module
custom_types_from_lenient(r) ==
    IF r.tag = "Panic" THEN Panic
    ELSE IF IsOk(r)
    THEN IF \E id \in DOMAIN r.val.types : split_once(id.name) = NONE
         THEN Panic
         ELSE Ok(ReKeyed(r.val.types,
                         [x \in DOMAIN r.val.types |->
                             <<OnceModule(x), OnceId(x)>>]))
    ELSE Ok(EmptyMap)

\* the body of custom_types, given what
\* db.transitive_stub(project_id, EQWALIZER_TYPES) returned
custom_types_from(r) ==
    IF r.tag = "Panic" THEN Panic
    ELSE IF IsOk(r)
    THEN IF \E id \in DOMAIN r.val.types : split_once(id.name) = NONE
         THEN Panic
         ELSE Ok(ReKeyed(r.val.types,
                         [x \in DOMAIN r.val.types |->
                             <<OnceModule(x), OnceId(x)>>]))
    ELSE IF r.val.kind = "ModuleNotFound" THEN Ok(EmptyMap)
    ELSE r

\* custom_types
custom_types(db, disk, project_id) ==
    custom_types_from(transitive_stub(db, disk, project_id, EQWALIZER_TYPES))

\* custom_fun_specs
custom_fun_specs(db, disk, project_id) ==
    LET r == transitive_stub(db, disk, project_id, EQWALIZER_SPECS)
    IN  IF r.tag = "Panic" THEN Panic
        ELSE IF IsOk(r)
        THEN IF \E id \in DOMAIN r.val.specs : split_once(id.name) = NONE
             THEN Panic
             ELSE Ok(ReKeyed(r.val.specs,
                             [x \in DOMAIN r.val.specs |->
                                 <<OnceModule(x), OnceId(x)>>]))
        ELSE IF r.val.kind = "ModuleNotFound" THEN Ok(EmptyMap)
        ELSE r

\* custom_overloaded_fun_specs
custom_overloaded_fun_specs(db, disk, project_id) ==
    LET r == transitive_stub(db, disk, project_id, EQWALIZER_SPECS)
    IN  IF r.tag = "Panic" THEN Panic
        ELSE IF IsOk(r)
        THEN IF \E id \in DOMAIN r.val.overloaded_specs : Len(split(id.name)) < 2
             THEN Panic
             ELSE Ok(ReKeyed(r.val.overloaded_specs,
                             [x \in DOMAIN r.val.overloaded_specs |->
                                 <<PartsModule(x), PartsId(x)>>]))
        ELSE IF r.val.kind = "ModuleNotFound" THEN Ok(EmptyMap)
        ELSE r

\* ---------------------------------------------------------------- lookups

\* `let stub = db.transitive_stub(project_id, module)?;
\*  Ok(stub.<field>.get(&id).cloned())`, given what transitive_stub returned
EntryOf(stub, field, id) ==
    IF ~IsOk(stub) THEN stub ELSE Ok(Get(stub.val[field], id))

OwnEntry(db, disk, project_id, module, field, id) ==
    EntryOf(transitive_stub(db, disk, project_id, module), field, id)

\* type_decl that asks for the module's own stub before it looks in the
\* custom types
type_decl_from_own_first(custom, stub, module, id) ==
    IF ~IsOk(custom) THEN custom
    ELSE IF ~IsOk(stub) THEN stub
    ELSE IF GetIn(custom.val, module, id) # NONE
    THEN Ok(GetIn(custom.val, module, id))
    ELSE EntryOf(stub, "types", id)

\* the body of type_decl, given what db.custom_types and (when it is
\* reached) db.transitive_stub returned
type_decl_from(custom, stub, module, id) ==
    IF ~IsOk(custom) THEN custom
    ELSE IF GetIn(custom.val, module, id) # NONE
    THEN Ok(GetIn(custom.val, module, id))
    ELSE EntryOf(stub, "types", id)

\* type_decl
type_decl(db, disk, project_id, module, id) ==
    type_decl_from(custom_types(db, disk, project_id),
                   transitive_stub(db, disk, project_id, module), module, id)

\* rec_decl
rec_decl(db, disk, project_id, module, id) ==
    OwnEntry(db, disk, project_id, module, "records", id)

\* fun_spec without the lookup in custom_fun_specs
fun_spec_no_custom(db, disk, project_id, module, id) ==
    LET overloaded == custom_overloaded_fun_specs(db, disk, project_id)
    IN  IF ~IsOk(overloaded) THEN overloaded
        ELSE IF GetIn(overloaded.val, module, id) # NONE THEN Ok(NONE)
        ELSE OwnEntry(db, disk, project_id, module, "specs", id)

\* fun_spec that looks in custom_fun_specs before custom_overloaded_fun_specs
fun_spec_plain_first(db, disk, project_id, module, id) ==
    LET custom == custom_fun_specs(db, disk, project_id)
    IN  IF ~IsOk(custom) THEN custom
        ELSE IF GetIn(custom.val, module, id) # NONE
        THEN Ok(GetIn(custom.val, module, id))
        ELSE LET overloaded == custom_overloaded_fun_specs(db, disk, project_id)
             IN  IF ~IsOk(overloaded) THEN overloaded
                 ELSE IF GetIn(overloaded.val, module, id) # NONE THEN Ok(NONE)
                 ELSE OwnEntry(db, disk, project_id, module, "specs", id)

\* fun_spec
fun_spec(db, disk, project_id, module, id) ==
    LET overloaded == custom_overloaded_fun_specs(db, disk, project_id)
    IN  IF ~IsOk(overloaded) THEN overloaded
        ELSE IF GetIn(overloaded.val, module, id) # NONE THEN Ok(NONE)
        ELSE LET custom == custom_fun_specs(db, disk, project_id)
             IN  IF ~IsOk(custom) THEN custom
                 ELSE IF GetIn(custom.val, module, id) # NONE
                 THEN Ok(GetIn(custom.val, module, id))
                 ELSE OwnEntry(db, disk, project_id, module, "specs", id)

\* overloaded_fun_spec that falls back to the specs map of the stub
overloaded_fun_spec_specs_map(db, disk, project_id, module, id) ==
    LET custom == custom_fun_specs(db, disk, project_id)
    IN  IF ~IsOk(custom) THEN custom
        ELSE IF GetIn(custom.val, module, id) # NONE THEN Ok(NONE)
        ELSE LET overloaded == custom_overloaded_fun_specs(db, disk, project_id)
             IN  IF ~IsOk(overloaded) THEN overloaded
                 ELSE IF GetIn(overloaded.val, module, id) # NONE
                 THEN Ok(GetIn(overloaded.val, module, id))
                 ELSE OwnEntry(db, disk, project_id, module, "specs", id)

\* overloaded_fun_spec without the guard on custom_fun_specs
overloaded_fun_spec_unguarded(db, disk, project_id, module, id) ==
    LET overloaded == custom_overloaded_fun_specs(db, disk, project_id)
    IN  IF ~IsOk(overloaded) THEN overloaded
        ELSE IF GetIn(overloaded.val, module, id) # NONE
        THEN Ok(GetIn(overloaded.val, module, id))
        ELSE OwnEntry(db, disk, project_id, module, "overloaded_specs", id)

\* overloaded_fun_spec
overloaded_fun_spec(db, disk, project_id, module, id) ==
    LET custom == custom_fun_specs(db, disk, project_id)
    IN  IF ~IsOk(custom) THEN custom
        ELSE IF GetIn(custom.val, module, id) # NONE THEN Ok(NONE)
        ELSE LET overloaded == custom_overloaded_fun_specs(db, disk, project_id)
             IN  IF ~IsOk(overloaded) THEN overloaded
                 ELSE IF GetIn(overloaded.val, module, id) # NONE
                 THEN Ok(GetIn(overloaded.val, module, id))
                 ELSE OwnEntry(db, disk, project_id, module, "overloaded_specs", id)

\* the *_bytes form of a lookup: Ok(Some(x)) becomes Ok(Some(x.to_bytes()))
BytesOf(r) ==
    IF ~IsOk(r) THEN r
    ELSE IF r.val = NONE THEN r
    ELSE Ok(Some(to_bytes(r.val.v)))

\* a type_decl_bytes that encodes the declaration of the module's own stub
type_decl_bytes_own(db, disk, project_id, module, id) ==
    BytesOf(OwnEntry(db, disk, project_id, module, "types", id))

\* type_decl_bytes
type_decl_bytes(db, disk, project_id, module, id) ==
    BytesOf(type_decl(db, disk, project_id, module, id))

\* rec_decl_bytes
rec_decl_bytes(db, disk, project_id, module, id) ==
    BytesOf(rec_decl(db, disk, project_id, module, id))

\* fun_spec_bytes
fun_spec_bytes(db, disk, project_id, module, id) ==
    BytesOf(fun_spec(db, disk, project_id, module, id))

\* overloaded_fun_spec_bytes
overloaded_fun_spec_bytes(db, disk, project_id, module, id) ==
    BytesOf(overloaded_fun_spec(db, disk, project_id, module, id))

\* callbacks
callbacks(db, disk, project_id, module) ==
    LET stub == transitive_stub(db, disk, project_id, module)
    IN  IF ~IsOk(stub) THEN stub
        ELSE Ok(<<stub.val.callbacks, stub.val.optional_callbacks>>)

\* ----------------------------------------------------------------- Change

\* Change::new
NewChange == [roots |-> NONE, files_changed |-> <<>>, app_structure |-> NONE]

\* a set_roots that keeps the roots staged first
set_roots_first(change, roots) ==
    IF change.roots = NONE THEN [change EXCEPT !.roots = Some(roots)] ELSE change

\* Change::set_roots
set_roots(change, roots) == [change EXCEPT !.roots = Some(roots)]

\* a change_file that keeps one entry for a file: a second call for the same
\* file replaces the text staged first
change_file_once(change, file_id, new_text) ==
    LET fc == change.files_changed
    IN  IF \E i \in DOMAIN fc : fc[i][1] = file_id
        THEN [change EXCEPT !.files_changed =
                 [i \in DOMAIN fc |-> IF fc[i][1] = file_id THEN <<file_id, new_text>>
                                       ELSE fc[i]]]
        ELSE [change EXCEPT !.files_changed = Append(@, <<file_id, new_text>>)]

\* Change::change_file
change_file(change, file_id, new_text) ==
    [change EXCEPT !.files_changed = Append(@, <<file_id, new_text>>)]

\* Change::set_app_structure
set_app_structure(change, a) == [change EXCEPT !.app_structure = Some(a)]

\* the loop over roots of Change::apply: db.set_file_source_root for every
\* file of every root, db.set_source_root for every root
ApplyRoots(db, roots) ==
    [db EXCEPT
        !.source_root = [i \in DOMAIN @ \cup (0 .. Len(roots) - 1) |->
                            IF i < Len(roots) THEN roots[i + 1] ELSE @[i]],
        !.file_source_root = [f \in DOMAIN @ \cup UNION {roots[i] : i \in DOMAIN roots} |->
                            LET is == {i \in DOMAIN roots : f \in roots[i]}
                            IN  IF is = {} THEN @[f]
                                ELSE (CHOOSE i \in is : \A j \in is : j <= i) - 1]]

\* AppStructure::apply
ApplyAppStructure(db, a) == [db EXCEPT !.app_data = a]

RECURSIVE ApplyFilesSkippingAbsent(_, _)
\* a loop over files_changed that leaves the text of a file alone when the
\* staged text is absent
ApplyFilesSkippingAbsent(db, files_changed) ==
    IF files_changed = <<>> THEN db
    ELSE LET file_id == files_changed[1][1]
             text == IF files_changed[1][2] = NONE THEN db.file_text[file_id]
                     ELSE files_changed[1][2].v
         IN  ApplyFilesSkippingAbsent([db EXCEPT !.file_text[file_id] = text],
                                      Tail(files_changed))

RECURSIVE ApplyFiles(_, _)
\* the loop over files_changed of Change::apply: an absent text is the
\* empty string
ApplyFiles(db, files_changed) ==
    IF files_changed = <<>> THEN db
    ELSE LET file_id == files_changed[1][1]
             text == IF files_changed[1][2] = NONE THEN BlankText
                     ELSE files_changed[1][2].v
         IN  ApplyFiles([db EXCEPT !.file_text[file_id] = text], Tail(files_changed))

\* Change::apply: the database after the change
apply(change, db) ==
    LET db1 == IF change.roots # NONE THEN ApplyRoots(db, change.roots.v) ELSE db
        db2 == IF change.app_structure # NONE
               THEN ApplyAppStructure(db1, change.app_structure.v) ELSE db1
    IN  ApplyFiles(db2, change.files_changed)

\* Change::apply: the list of FileIds it returns
apply_res(change) == [i \in DOMAIN change.files_changed |-> change.files_changed[i][1]]

\* -------------------------------------------------------- semantic tokens

\* lsp_types::Position and lsp_types::Range
Position(line, character) == [line |-> line, character |-> character]
Range(start, end) == [start |-> start, end |-> end]

\* a - b in u32.  When a < b the subtraction overflows: a build with
\* overflow checks panics, a build without them wraps to a - b + 2^32.  The
\* wrapped value is written as the negative number a - b, which stands for
\* a - b + 2^32 (it is never zero and no arithmetic is done on it later).
Underflows(a, b) == a < b
WrappingSub(a, b) == a - b

\* SemanticTokensBuilder::new; `pushed` logs the ranges passed to push and
\* `aborted` tells that a push panicked
SemanticTokensBuilder_new ==
    [prev_line |-> 0, prev_char |-> 0, data |-> <<>>, pushed |-> <<>>,
     aborted |-> FALSE]

\* no builder was made yet
NoBuilder == SemanticTokensBuilder_new

\* the five fields of the token push builds
PushedToken(push_line, push_char, token_len, token_index, modifier_bitset) ==
    [delta_line |-> push_line, delta_start |-> push_char, length |-> token_len,
     token_type |-> token_index, token_modifiers_bitset |-> modifier_bitset]

\* the subtractions of push that overflow for this builder and range
push_underflows(b, range) ==
    \/ /\ b.data # <<>>
       /\ \/ Underflows(range.start.line, b.prev_line)
          \/ /\ range.start.line = b.prev_line
             /\ Underflows(range.start.character, b.prev_char)
    \/ Underflows(range.end.character, range.start.character)

\* a push that subtracts prev_char from the character on every line
push_always_relative(b, range, token_index, modifier_bitset) ==
    LET push_line == IF b.data # <<>>
                     THEN WrappingSub(range.start.line, b.prev_line)
                     ELSE range.start.line
        push_char == IF b.data # <<>>
                     THEN WrappingSub(range.start.character, b.prev_char)
                     ELSE range.start.character
        token_len == WrappingSub(range.end.character, range.start.character)
    IN  [b EXCEPT !.data = Append(@, PushedToken(push_line, push_char, token_len,
                                                   token_index, modifier_bitset)),
                  !.prev_line = range.start.line,
                  !.prev_char = range.start.character]

\* SemanticTokensBuilder::push, when no subtraction panics
push(b, range, token_index, modifier_bitset) ==
    LET push_line == IF b.data # <<>>
                     THEN WrappingSub(range.start.line, b.prev_line)
                     ELSE range.start.line
        push_char == IF b.data # <<>> /\ push_line = 0
                     THEN WrappingSub(range.start.character, b.prev_char)
                     ELSE range.start.character
        token_len == WrappingSub(range.end.character, range.start.character)
    IN  [b EXCEPT !.data = Append(@, PushedToken(push_line, push_char, token_len,
                                                   token_index, modifier_bitset)),
                  !.prev_line = range.start.line,
                  !.prev_char = range.start.character]

\* lsp_types::SemanticToken, as the tests build it
SemanticToken(t) ==
    [delta_line |-> t[1], delta_start |-> t[2], length |-> t[3],
     token_type |-> t[4], token_modifiers_bitset |-> t[5]]

\* iter().rev()
Rev(s) == [i \in 1..Len(s) |-> s[Len(s) + 1 - i]]

RECURSIVE take_while_eq(_, _)
\* a.iter().zip(b.iter()).take_while(|&(n, p)| n == p).count()
take_while_eq(a, b) ==
    IF a = <<>> \/ b = <<>> THEN 0
    ELSE IF Head(a) # Head(b) THEN 0
    ELSE 1 + take_while_eq(Tail(a), Tail(b))

\* slice.split_at(mid)
split_at(s, mid) == <<SubSeq(s, 1, mid), SubSeq(s, mid + 1, Len(s))>>

\* a diff_tokens that counts in tokens
diff_tokens_in_tokens(old, new) ==
    LET offset == take_while_eq(new, old)
        old1 == split_at(old, offset)[2]
        new1 == split_at(new, offset)[2]
        offset_from_end == take_while_eq(Rev(new1), Rev(old1))
        old2 == split_at(old1, Len(old1) - offset_from_end)[1]
        new2 == split_at(new1, Len(new1) - offset_from_end)[1]
    IN  IF old2 = <<>> /\ new2 = <<>> THEN <<>>
        ELSE << [start |-> offset, delete_count |-> Len(old2),
                 data |-> Some(new2)] >>

\* a diff_tokens that does not look for a common end
diff_tokens_to_the_end(old, new) ==
    LET offset == take_while_eq(new, old)
        old1 == split_at(old, offset)[2]
        new1 == split_at(new, offset)[2]
    IN  IF old1 = <<>> /\ new1 = <<>> THEN <<>>
        ELSE << [start |-> 5 * offset, delete_count |-> 5 * Len(old1),
                 data |-> Some(new1)] >>

\* diff_tokens; 5 * offset as u32 and 5 * old.len() as u32 do not wrap for
\* lists shorter than 2^32 / 5 tokens
diff_tokens(old, new) ==
    LET offset == take_while_eq(new, old)
        old1 == split_at(old, offset)[2]
        new1 == split_at(new, offset)[2]
        offset_from_end == take_while_eq(Rev(new1), Rev(old1))
        old2 == split_at(old1, Len(old1) - offset_from_end)[1]
        new2 == split_at(new1, Len(new1) - offset_from_end)[1]
    IN  IF old2 = <<>> /\ new2 = <<>> THEN <<>>
        ELSE << [start |-> 5 * offset, delete_count |-> 5 * Len(old2),
                 data |-> Some(new2)] >>

\* ------------------------------------------------- the diagnostics query

\* EqwalizerDiagnostics: the variants get_module_diagnostics builds, and
\* EqwalizerDiagnostics::Error(text)
DiagnosticsOf(errors) == [kind |-> "Diagnostics", errors |-> errors]
NoAst == [kind |-> "NoAst"]
EqwalizerDiagnosticsError(text) == [kind |-> "Error", text |-> text]

\* format!("eqWAlizing module {module}:\n{err}"): err is the text its
\* Display gives
format_eqwalizing(module, err) ==
    <<"eqWAlizing module ">> \o module \o <<":", "\n">> \o err

\* the value of module_diagnostics: the pair (payload, timestamp)
Pair(payload, timestamp) ==
    [tag |-> "Pair", val |-> <<payload, timestamp>>]

\* a module_diagnostics whose error text leaves the module out
module_diagnostics_from_unnamed(module, r, timestamp) ==
    IF IsOk(r) THEN Pair(r.val, timestamp)
    ELSE Pair(EqwalizerDiagnosticsError(r.val), timestamp)

\* the body of module_diagnostics, given what Instant::now() and
\* get_module_diagnostics returned
module_diagnostics_from(module, r, timestamp) ==
    IF IsOk(r) THEN Pair(r.val, timestamp)
    ELSE Pair(EqwalizerDiagnosticsError(format_eqwalizing(module, r.val)), timestamp)

\* ------------------------------------------------------ the query database

\* spec.md, section 4.1: the database holds the inputs and, for every
\* derived fact it has computed, the result and the facts the computation
\* read.  A committed change of an input makes the facts that read it
\* stale; a read validates a stale fact against what it recorded and
\* recomputes it on demand; a fact that recomputes to an equal result is not
\* marked changed.  A fact is named by the query and its arguments.

MaxRev == 1

RootsInput == <<"source_root">>
AppStructureInput == <<"app_structure">>
FileTextInput(f) == <<"file_text", f>>
EqwalizerConfigInput == <<"eqwalizer_config">>
Inputs ==
    {RootsInput, AppStructureInput, EqwalizerConfigInput}
    \cup {FileTextInput(f) : f \in Files}

ModuleAstKey(f) == <<"module_ast", f>>
StubKey(q, m) == <<q, m>>
CustomTypesKey == <<"custom_types">>
TypeDeclKey(m, x) == <<"type_decl", m, x>>
DiagnosticsKey(m) == <<"module_diagnostics", m>>

MemoModules == {ModA, EQWALIZER_TYPES}
MemoStages == {"converted_stub", "expanded_stub", "contractive_stub", "transitive_stub"}
MemoId == Id(NameF, 0)

\* the derived facts the database memoizes
Derived ==
    {ModuleAstKey(f) : f \in Files}
    \cup {StubKey(q, m) : q \in MemoStages, m \in MemoModules}
    \cup {CustomTypesKey, TypeDeclKey(ModA, MemoId)}
    \cup {DiagnosticsKey(m) : m \in MemoModules}

\* what the database holds for a derived fact: nothing, or the result, the
\* facts read while computing it, the revision the result was last known to
\* be valid in, the revision it last changed in and the number of times it
\* was computed (the recomputation counter)
NoMemo == [present |-> FALSE, runs |-> 0]
MemoOf(value, deps, verified_at, changed_at, runs) ==
    [present |-> TRUE, value |-> value, deps |-> deps,
     verified_at |-> verified_at, changed_at |-> changed_at, runs |-> runs]

SameValue(a, b) == a.tag = b.tag /\ a = b

\* the inputs Change::apply sets, each of which starts a new revision of
\* the input
InputsSet(change) ==
    (IF change.roots # NONE THEN {RootsInput} ELSE {})
    \cup (IF change.app_structure # NONE THEN {AppStructureInput} ELSE {})
    \cup {FileTextInput(change.files_changed[i][1]) : i \in DOMAIN change.files_changed}

RECURSIVE Fetch(_, _, _)
RECURSIVE VerifyDeps(_, _, _, _)

\* The body of query k run against the database e, every query it calls
\* answered by the database: the store after the calls, the result and the
\* facts read, in the order of the calls.
RunQuery(e, st, k) ==
    CASE k[1] = "module_ast" ->
            [st |-> st, val |-> module_ast(e.db, k[2]),
             deps |-> <<RootsInput, FileTextInput(k[2]), AppStructureInput>>]
      [] k[1] = "converted_stub" ->
            LET file == file_for_module(e.db, 0, k[2])
                reads_ast == /\ file # NONE
                             /\ from_beam_path(e.db, file.v, k[2]) = NONE
                F == Fetch(e, st, ModuleAstKey(file.v))
            IN  IF reads_ast
                THEN [st |-> F.st,
                      val |-> converted_from(e.db, e.disk, 0, k[2],
                                             erl_ast_bytes_from(F.val)),
                      deps |-> <<AppStructureInput, ModuleAstKey(file.v)>>]
                ELSE [st |-> st,
                      val |-> converted_stub(e.db, e.disk, 0, k[2]),
                      deps |-> <<AppStructureInput>>]
      [] k[1] = "expanded_stub" ->
            LET F == Fetch(e, st, StubKey("converted_stub", k[2]))
            IN  [st |-> F.st, val |-> expanded_from(F.val),
                 deps |-> <<StubKey("converted_stub", k[2])>>]
      [] k[1] = "contractive_stub" ->
            LET F == Fetch(e, st, StubKey("expanded_stub", k[2]))
            IN  [st |-> F.st, val |-> contractive_from(
                                 WithOwn(ExpandedStubs(e.db, e.disk, 0, k[2]), k[2], F.val),
                                 k[2]),
                 deps |-> <<StubKey("expanded_stub", k[2])>>]
      [] k[1] = "transitive_stub" ->
            LET F == Fetch(e, st, StubKey("contractive_stub", k[2]))
            IN  [st |-> F.st, val |-> transitive_from(
                                 WithOwn(ContractiveStubs(e.db, e.disk, 0, k[2]), k[2], F.val),
                                 k[2]),
                 deps |-> <<StubKey("contractive_stub", k[2])>>]
      [] k[1] = "custom_types" ->
            LET F == Fetch(e, st, StubKey("transitive_stub", EQWALIZER_TYPES))
            IN  [st |-> F.st, val |-> custom_types_from(F.val),
                 deps |-> <<StubKey("transitive_stub", EQWALIZER_TYPES)>>]
      [] k[1] = "type_decl" ->
            LET C == Fetch(e, st, CustomTypesKey)
                reads_stub == IsOk(C.val) /\ GetIn(C.val.val, k[2], k[3]) = NONE
                F == Fetch(e, C.st, StubKey("transitive_stub", k[2]))
            IN  IF reads_stub
                THEN [st |-> F.st, val |-> type_decl_from(C.val, F.val, k[2], k[3]),
                      deps |-> <<CustomTypesKey, StubKey("transitive_stub", k[2])>>]
                ELSE [st |-> C.st, val |-> type_decl_from(C.val, C.val, k[2], k[3]),
                      deps |-> <<CustomTypesKey>>]
      [] k[1] = "module_diagnostics" ->
            \* e.now is what Instant::now() returns, e.outcome what
            \* get_module_diagnostics returns
            [st |-> st, val |-> module_diagnostics_from(k[2], e.outcome, e.now),
             deps |-> <<EqwalizerConfigInput>>]

\* Query k is computed and its result memoized.  A result equal to the one
\* memoized before keeps the revision it changed in; a computation that
\* panics unwinds and memoizes nothing.
Execute(e, st, k) ==
    LET R == RunQuery(e, [st EXCEPT !.executed = @ \cup {k}], k)
        old == R.st.memo[k]
    IN  IF R.val.tag = "Panic"
        THEN [st |-> R.st, val |-> Panic, changed_at |-> e.rev]
        ELSE LET changed == IF old.present /\ SameValue(old.value, R.val)
                            THEN old.changed_at ELSE e.rev
             IN  [st |-> [R.st EXCEPT !.memo[k] = MemoOf(R.val, R.deps, e.rev, changed, old.runs + 1)],
                  val |-> R.val, changed_at |-> changed]

\* a validation that finds every memoized result up to date
VerifyEverything(e, st, deps, verified_at) ==
    [st |-> st, ok |-> TRUE, panic |-> FALSE]

\* a validation that finds every memoized result out of date
VerifyNothing(e, st, deps, verified_at) ==
    [st |-> st, ok |-> FALSE, panic |-> FALSE]

\* The facts a memoized result read are validated in the order it read
\* them: an input must not have changed after verified_at, a derived fact
\* is brought up to date and must not have changed after verified_at.
VerifyDeps(e, st, deps, verified_at) ==
    IF deps = <<>> THEN [st |-> st, ok |-> TRUE, panic |-> FALSE]
    ELSE IF Head(deps) \in Inputs
    THEN IF e.changed_at[Head(deps)] > verified_at
         THEN [st |-> st, ok |-> FALSE, panic |-> FALSE]
         ELSE VerifyDeps(e, st, Tail(deps), verified_at)
    ELSE LET F == Fetch(e, st, Head(deps))
         IN  IF F.val.tag = "Panic" THEN [st |-> F.st, ok |-> FALSE, panic |-> TRUE]
             ELSE IF F.changed_at > verified_at
             THEN [st |-> F.st, ok |-> FALSE, panic |-> FALSE]
             ELSE VerifyDeps(e, F.st, Tail(deps), verified_at)

\* a read that computes the fact anew every time
FetchFresh(e, st, k) == Execute(e, st, k)

\* A read of the derived fact k: the memoized result when it was validated
\* in the current revision or validates now, a new computation otherwise.
Fetch(e, st, k) ==
    LET m == st.memo[k]
    IN  IF ~m.present THEN Execute(e, st, k)
        ELSE IF m.verified_at = e.rev
        THEN [st |-> st, val |-> m.value, changed_at |-> m.changed_at]
        ELSE LET V == VerifyDeps(e, st, m.deps, m.verified_at)
             IN  IF V.panic
                 THEN [st |-> V.st, val |-> Panic, changed_at |-> e.rev]
                 ELSE IF V.ok
                 THEN [st |-> [V.st EXCEPT !.memo[k].verified_at = e.rev],
                       val |-> m.value, changed_at |-> m.changed_at]
                 ELSE Execute(e, V.st, k)

\* ------------------------------------------------------------ the machine

VARIABLES
    db,     \* the database inputs: app_data, file_text, source_root, file_source_root
    disk,   \* the .beam files on disk, outside the database
    res,    \* the call the client made last and the value it returned, until
            \* the client has taken it
    rev,        \* the current revision of the database
    changed_at, \* for every input, the revision it was last set in
    memo,       \* for every derived fact, what the database memoizes
    executed,   \* the queries the last call computed: the recomputation
                \* counters it incremented
    tx,         \* the Change the client is staging or applying, and how far
                \* Change::apply has got with it
    clock,      \* what Instant::now() returns: the monotonic clock
    builder     \* the SemanticTokensBuilder of the client: prev_line,
                \* prev_char and data, and the ranges passed to push so far

vars == <<db, disk, res, rev, changed_at, memo, executed, tx, clock, builder>>
store == <<rev, changed_at, memo, executed>>

\* what the client has passed to set_roots and set_app_structure while it
\* staged a Change: the argument of the last call, and whether there was no
\* call, one call, or more than one
NoSetters == [roots |-> NONE, roots_n |-> 0, app_structure |-> NONE,
              app_structure_n |-> 0]

\* no Change is being applied: the Change staged so far, the step
\* Change::apply is at, the database it started from, the change_file calls
\* made, the set_roots and set_app_structure calls made and the list apply
\* has built
NoTx == [change |-> NewChange, pc |-> "staging", i |-> 1, before |-> <<>>,
         calls |-> <<>>, setters |-> NoSetters, out |-> <<>>]

NoId == Id(<<>>, 0)
NoRes == [q |-> "none", module |-> <<>>, id |-> NoId, val |-> [tag |-> "None", val |-> <<>>]]

\* the Ids the lookups are asked for
QueryIds == {Id(NameF, 0), Id(NameF, 1), Id(NameFG, 0)}

StageQueries ==
    {"converted_stub", "expanded_stub", "contractive_stub", "transitive_stub",
     "transitive_stub_bytes", "callbacks"}
CustomQueries == {"custom_types", "custom_fun_specs", "custom_overloaded_fun_specs"}
LookupQueries == {"type_decl", "fun_spec", "overloaded_fun_spec", "rec_decl"}

\* the value of query q of the EqwalizerDiagnosticsDatabase query group
Eval(d, dk, q, m, x) ==
    CASE q = "converted_stub" -> converted_stub(d, dk, 0, m)
      [] q = "expanded_stub" -> expanded_stub(d, dk, 0, m)
      [] q = "contractive_stub" -> contractive_stub(d, dk, 0, m)
      [] q = "transitive_stub" -> transitive_stub(d, dk, 0, m)
      [] q = "transitive_stub_bytes" -> transitive_stub_bytes(d, dk, 0, m)
      [] q = "callbacks" -> callbacks(d, dk, 0, m)
      [] q = "custom_types" -> custom_types(d, dk, 0)
      [] q = "custom_fun_specs" -> custom_fun_specs(d, dk, 0)
      [] q = "custom_overloaded_fun_specs" -> custom_overloaded_fun_specs(d, dk, 0)
      [] q = "type_decl" -> type_decl(d, dk, 0, m, x)
      [] q = "fun_spec" -> fun_spec(d, dk, 0, m, x)
      [] q = "overloaded_fun_spec" -> overloaded_fun_spec(d, dk, 0, m, x)
      [] q = "rec_decl" -> rec_decl(d, dk, 0, m, x)

InitStore ==
    /\ rev = 0
    /\ changed_at = [i \in Inputs |-> 0]
    /\ memo = [k \in Derived |-> NoMemo]
    /\ executed = {}
    /\ tx = NoTx
    /\ clock = 0
    /\ builder = NoBuilder

Init ==
    /\ db \in { [app_data |-> a,
                 file_text |-> [f \in Files |-> BlankText],
                 source_root |-> [i \in {0} |-> Files],
                 file_source_root |-> [f \in Files |-> 0]]
                : a \in AppStructures }
    /\ disk \in [BeamPaths -> BeamFiles]
    /\ res = NoRes
    /\ InitStore

\* the Changes applied: one staged text, present or absent, or a new
\* application structure
Changes ==
    { change_file(NewChange, f, t)
        : f \in Files, t \in {NONE} \cup {Some(x) : x \in TextsOf("f1") \cup TextsOf("f2")} }
    \cup { set_app_structure(NewChange, a) : a \in AppStructures }

\* a Change is applied to the database
Apply(change) ==
    /\ res = NoRes
    /\ \A i \in DOMAIN change.files_changed :
          change.files_changed[i][2] # NONE =>
              change.files_changed[i][2].v \in TextsOf(change.files_changed[i][1])
    /\ db' = apply(change, db)
    /\ res' = [q |-> "apply", module |-> <<>>, id |-> NoId, val |-> Ok(apply_res(change))]
    /\ UNCHANGED <<disk, store, tx, clock, builder>>

\* a .beam file is written or removed on disk
DiskWrite(path, contents) ==
    /\ res = NoRes
    /\ disk[path] # contents
    /\ disk' = [disk EXCEPT ![path] = contents]
    /\ res' = NoRes
    /\ UNCHANGED <<db, store, tx, clock, builder>>

\* a stage of the pipeline is queried for a module
QueryStage(q, m) ==
    /\ res = NoRes
    /\ res' = [q |-> q, module |-> m, id |-> NoId, val |-> Eval(db, disk, q, m, NoId)]
    /\ UNCHANGED <<db, disk, store, tx, clock, builder>>

\* an override map is queried
QueryCustom(q) ==
    /\ res = NoRes
    /\ res' = [q |-> q, module |-> <<>>, id |-> NoId, val |-> Eval(db, disk, q, <<>>, NoId)]
    /\ UNCHANGED <<db, disk, store, tx, clock, builder>>

\* a declaration is looked up
QueryLookup(q, m, x) ==
    /\ res = NoRes
    /\ res' = [q |-> q, module |-> m, id |-> x, val |-> Eval(db, disk, q, m, x)]
    /\ UNCHANGED <<db, disk, store, tx, clock, builder>>

\* the client takes the returned value and is ready for its next call
Return ==
    /\ res # NoRes
    /\ res' = NoRes
    /\ UNCHANGED <<db, disk, store, tx, clock, builder>>

Next ==
    \/ \E change \in Changes : Apply(change)
    \/ \E path \in BeamPaths, contents \in BeamFiles : DiskWrite(path, contents)
    \/ \E q \in StageQueries, m \in Modules : QueryStage(q, m)
    \/ \E q \in CustomQueries : QueryCustom(q)
    \/ \E q \in LookupQueries, x \in QueryIds : QueryLookup(q, ModA, x)
    \/ Return

Spec == Init /\ [][Next]_vars

\* ----------------------------------------- the machine, queries memoized

\* The same client against the database of section 4.1: what it reads is
\* answered from the memoized results.  The .beam files are as they were
\* when the session began.

\* module a in file f1, of a project application or of an OTP application;
\* the reserved module eqwalizer_types in file f2, or absent
MemoAppStructures ==
    { a \in AppStructures : a["f1"].present /\ a["f2"] # AppData(EQWALIZER_SPECS, "App", NONE) }

\* the texts given to the files: f1 without and with a type declaration; f2
\* with an override for a:f/0 and with a declaration under a name without
\* colon; the empty text when a Change gives none
MemoTexts(f) ==
    IF f = "f1"
    THEN { [parse |-> "ok", forms |-> {ModuleForm}],
           [parse |-> "ok", forms |-> {ModuleForm, Form("type", NameF, 0, "integer")}] }
    ELSE { [parse |-> "ok", forms |-> {ModuleForm, Form("type", NameAF, 0, "atom")}],
           [parse |-> "ok", forms |-> {ModuleForm, Form("type", NameF, 0, "integer")}] }

MemoChanges ==
    { change_file(NewChange, f, t)
        : f \in Files, t \in {NONE} \cup {Some(x) : x \in MemoTexts("f1") \cup MemoTexts("f2")} }
    \cup { set_app_structure(NewChange, a) : a \in MemoAppStructures }

\* the facts the client asks for; the stages between them are read by the
\* queries themselves
MemoQueries ==
    { StubKey("converted_stub", ModA), StubKey("transitive_stub", ModA),
      StubKey("transitive_stub", EQWALIZER_TYPES), TypeDeclKey(ModA, MemoId) }

InitMemo ==
    /\ db \in { [app_data |-> a,
                 file_text |-> [f \in Files |-> BlankText],
                 source_root |-> [i \in {0} |-> Files],
                 file_source_root |-> [f \in Files |-> 0]]
                : a \in MemoAppStructures }
    /\ disk \in [BeamPaths -> BeamFiles]
    /\ res = NoRes
    /\ InitStore

\* a Change is applied: a new revision, in which the inputs it sets changed
ApplyMemo(change) ==
    /\ res = NoRes
    /\ rev < MaxRev
    /\ \A i \in DOMAIN change.files_changed :
          change.files_changed[i][2] # NONE =>
              change.files_changed[i][2].v \in MemoTexts(change.files_changed[i][1])
    /\ db' = apply(change, db)
    /\ rev' = rev + 1
    /\ changed_at' = [i \in Inputs |-> IF i \in InputsSet(change) THEN rev + 1
                                        ELSE changed_at[i]]
    /\ res' = [q |-> "apply", module |-> <<>>, id |-> NoId, val |-> Ok(apply_res(change))]
    /\ executed' = {}
    /\ UNCHANGED <<disk, memo, tx, clock, builder>>

\* the client reads the derived fact k
QueryMemo(k) ==
    /\ res = NoRes
    /\ LET F == Fetch([db |-> db, disk |-> disk, rev |-> rev, changed_at |-> changed_at],
                      [memo |-> memo, executed |-> {}], k)
       IN  /\ memo' = F.st.memo
           /\ executed' = F.st.executed
           /\ res' = [q |-> k[1],
                      module |-> IF Len(k) >= 2 THEN k[2] ELSE <<>>,
                      id |-> IF Len(k) >= 3 THEN k[3] ELSE NoId,
                      val |-> F.val]
    /\ UNCHANGED <<db, disk, rev, changed_at, tx, clock, builder>>

\* the client takes the returned value
ReturnMemo ==
    /\ res # NoRes
    /\ res' = NoRes
    /\ executed' = {}
    /\ UNCHANGED <<db, disk, rev, changed_at, memo, tx, clock, builder>>

NextMemo ==
    \/ \E change \in MemoChanges : ApplyMemo(change)
    \/ \E k \in MemoQueries : QueryMemo(k)
    \/ ReturnMemo

SpecMemo == InitMemo /\ [][NextMemo]_vars

\* ------------------------------------------ the checkers of the stubs

\* The contractive and the transitive stage are asked for modules whose
\* types refer to each other: module a in file f1, module b in file f2.

ModB == <<"b">>
StubModules == {ModA, ModB}

TypeDeclForm(name, arity, type) == [kind |-> "type", id |-> Id(name, arity), body |-> type]

IdT == Id(<<"t">>, 0)
IdU == Id(<<"u">>, 0)
IdV == Id(<<"v">>, 0)
IdW == Id(<<"w">>, 0)
IdY == Id(<<"y">>, 0)
IdX == Id(<<"x">>, 0)
IdZ == Id(<<"z">>, 0)

\* -type t() :: t().
LoopForm == TypeDeclForm(<<"t">>, 0, LocalType(IdT))
\* -type u() :: {leaf} | {node, u()}.
TreeForm ==
    TypeDeclForm(<<"u">>, 0,
                 UnionType(<< TupleType(<<Base("leaf")>>),
                              TupleType(<<Base("node"), LocalType(IdU)>>) >>))
\* -type v() :: integer().
PlainForm == TypeDeclForm(<<"v">>, 0, Base("integer"))
\* -type w() :: b:x().
ForeignForm == TypeDeclForm(<<"w">>, 0, RemoteType(ModB, IdX))
\* -type y() :: {t()}.
DependentForm == TypeDeclForm(<<"y">>, 0, TupleType(<<LocalType(IdT)>>))

\* the declarations of module a
StubFormsA == {LoopForm, TreeForm, PlainForm, ForeignForm, DependentForm}

\* the declarations of module b: x() is atom(), or a:w(), or {z()}, and z()
\* is declared or not
StubFormsX ==
    { TypeDeclForm(<<"x">>, 0, Base("atom")),
      TypeDeclForm(<<"x">>, 0, RemoteType(ModA, IdW)),
      TypeDeclForm(<<"x">>, 0, TupleType(<<RemoteType(ModB, IdZ)>>)) }
StubFormZ == TypeDeclForm(<<"z">>, 0, Base("integer"))

\* the texts of the two modules
StubTexts(f) ==
    FailingTexts \cup
    IF f = "f1"
    THEN { [parse |-> "ok", forms |-> fs \cup {ModuleForm}]
             : fs \in {s \in SUBSET StubFormsA : Cardinality(s) <= MaxForms} }
    ELSE { [parse |-> "ok", forms |-> xs \cup zs \cup {ModuleForm}]
             : xs \in {{}} \cup {{x} : x \in StubFormsX}, zs \in {{}, {StubFormZ}} }

\* the application structures: file f2 is module b or absent
StubApps ==
    { [f \in Files |-> IF f = "f1" THEN AppData(ModA, "App", NONE) ELSE a2]
        : a2 \in {NoAppData, AppData(ModB, "App", NONE)} }

StubChanges ==
    { change_file(NewChange, f, Some(t)) : f \in Files, t \in StubTexts("f1") \cup StubTexts("f2") }
    \cup { set_app_structure(NewChange, a) : a \in StubApps }

\* the four stages of the pipeline
PipelineStages == {"converted_stub", "expanded_stub", "contractive_stub", "transitive_stub"}

InitStub ==
    /\ db \in { [app_data |-> a,
                 file_text |-> [f \in Files |-> BlankText],
                 source_root |-> [i \in {0} |-> Files],
                 file_source_root |-> [f \in Files |-> 0]]
                : a \in StubApps }
    /\ disk = [p \in BeamPaths |-> NoBeam]
    /\ res = NoRes
    /\ InitStore

\* a Change is applied to the database
ApplyStub(change) ==
    /\ res = NoRes
    /\ \A i \in DOMAIN change.files_changed :
          change.files_changed[i][2].v \in StubTexts(change.files_changed[i][1])
    /\ db' = apply(change, db)
    /\ res' = [q |-> "apply", module |-> <<>>, id |-> NoId, val |-> Ok(apply_res(change))]
    /\ UNCHANGED <<disk, store, tx, clock, builder>>

NextStub ==
    \/ \E change \in StubChanges : ApplyStub(change)
    \/ \E q \in PipelineStages, m \in StubModules : QueryStage(q, m)
    \/ Return

SpecStub == InitStub /\ [][NextStub]_vars

\* ------------------------------------- Change::apply, write by write

\* Change::apply installs a Change by separate writes: the loop over the
\* roots, the application structure, the loop over the staged texts.  The
\* client stages a Change call by call and applies it; a reader reads the
\* inputs of the database.

MaxStaged == 2

\* Change::apply takes the database by exclusive reference
\* (db: &mut dyn RootQueryDb): nothing reads the database from the call of
\* apply to its return
CanReadAlways(pc) == TRUE

CanRead(pc) == pc = "staging"

\* the root tables, texts and application structures the client stages
ChangeRoots == { <<Files>>, <<{"f1"}, {"f2"}>>, <<{"f1"}>> }
ChangeText == [parse |-> "ok", forms |-> {ModuleForm}]
ChangeApps ==
    { [f \in Files |-> IF f = "f1" THEN AppData(ModA, "App", NONE) ELSE NoAppData],
      [f \in Files |-> NoAppData] }

InitChange ==
    /\ db = [app_data |-> [f \in Files |-> NoAppData],
             file_text |-> [f \in Files |-> BlankText],
             source_root |-> [i \in {0} |-> Files],
             file_source_root |-> [f \in Files |-> 0]]
    /\ disk = [p \in BeamPaths |-> NoBeam]
    /\ res = NoRes
    /\ InitStore

\* the client calls set_roots on the Change it is staging
StageRoots(roots) ==
    /\ res = NoRes
    /\ tx.pc = "staging"
    /\ tx.change.roots # Some(roots)
    /\ tx' = [tx EXCEPT !.change = set_roots(@, roots),
                        !.setters.roots = Some(roots),
                        !.setters.roots_n = IF @ = 0 THEN 1 ELSE 2]
    /\ UNCHANGED <<db, disk, res, store, clock, builder>>

\* the client calls set_app_structure
StageAppStructure(a) ==
    /\ res = NoRes
    /\ tx.pc = "staging"
    /\ tx.change.app_structure # Some(a)
    /\ tx' = [tx EXCEPT !.change = set_app_structure(@, a),
                        !.setters.app_structure = Some(a),
                        !.setters.app_structure_n = IF @ = 0 THEN 1 ELSE 2]
    /\ UNCHANGED <<db, disk, res, store, clock, builder>>

\* the client calls change_file
StageFile(file_id, new_text) ==
    /\ res = NoRes
    /\ tx.pc = "staging"
    /\ Len(tx.calls) < MaxStaged
    /\ tx' = [tx EXCEPT !.change = change_file(@, file_id, new_text),
                        !.calls = Append(@, file_id)]
    /\ UNCHANGED <<db, disk, res, store, clock, builder>>

\* the client calls Change::apply: res = vec![]
BeginApply ==
    /\ res = NoRes
    /\ tx.pc = "staging"
    /\ tx' = [tx EXCEPT !.pc = "roots", !.before = db, !.out = <<>>]
    /\ UNCHANGED <<db, disk, res, store, clock, builder>>

\* if let Some(roots) = self.roots { ... }
WriteRoots ==
    /\ res = NoRes
    /\ tx.pc = "roots"
    /\ db' = IF tx.change.roots # NONE THEN ApplyRoots(db, tx.change.roots.v) ELSE db
    /\ tx' = [tx EXCEPT !.pc = "app_structure"]
    /\ UNCHANGED <<disk, res, store, clock, builder>>

\* if let Some(set_app_structure) = self.app_structure { ... }
WriteAppStructure ==
    /\ res = NoRes
    /\ tx.pc = "app_structure"
    /\ db' = IF tx.change.app_structure # NONE
             THEN ApplyAppStructure(db, tx.change.app_structure.v) ELSE db
    /\ tx' = [tx EXCEPT !.pc = "files", !.i = 1]
    /\ UNCHANGED <<disk, res, store, clock, builder>>

\* one turn of the loop over files_changed: db.set_file_text and
\* res.push(file_id)
WriteFile ==
    /\ res = NoRes
    /\ tx.pc = "files"
    /\ tx.i <= Len(tx.change.files_changed)
    /\ LET one == [tx.change EXCEPT !.files_changed = <<tx.change.files_changed[tx.i]>>]
       IN  /\ db' = ApplyFiles(db, one.files_changed)
           /\ tx' = [tx EXCEPT !.i = @ + 1, !.out = @ \o apply_res(one)]
    /\ UNCHANGED <<disk, res, store, clock, builder>>

\* Change::apply returns res
EndApply ==
    /\ res = NoRes
    /\ tx.pc = "files"
    /\ tx.i > Len(tx.change.files_changed)
    /\ tx' = [tx EXCEPT !.pc = "done"]
    /\ res' = [q |-> "apply", module |-> <<>>, id |-> NoId, val |-> Ok(tx.out)]
    /\ UNCHANGED <<db, disk, store, clock, builder>>

\* the client takes the list apply returned and starts a new Change
ReturnApply ==
    /\ res.q = "apply"
    /\ res' = NoRes
    /\ tx' = NoTx
    /\ UNCHANGED <<db, disk, store, clock, builder>>

\* a reader reads the inputs of the database
Observe ==
    /\ res = NoRes
    /\ CanRead(tx.pc)
    /\ res' = [q |-> "observe", module |-> <<>>, id |-> NoId, val |-> Ok(db)]
    /\ UNCHANGED <<db, disk, store, tx, clock, builder>>

\* the reader takes what it read
ReturnObserve ==
    /\ res.q = "observe"
    /\ res' = NoRes
    /\ UNCHANGED <<db, disk, store, tx, clock, builder>>

NextChange ==
    \/ \E roots \in ChangeRoots : StageRoots(roots)
    \/ \E a \in ChangeApps : StageAppStructure(a)
    \/ \E f \in Files, t \in {NONE, Some(ChangeText)} : StageFile(f, t)
    \/ BeginApply
    \/ WriteRoots
    \/ WriteAppStructure
    \/ WriteFile
    \/ EndApply
    \/ ReturnApply
    \/ Observe
    \/ ReturnObserve

SpecChange == InitChange /\ [][NextChange]_vars

\* ----------------------------------------------------- cancellation

\* spec.md, sections 4.1 and 5: a Change that is committed advances the
\* revision; a long computation polls a cancellation flag tied to the
\* revision and aborts with a cancellation signal when a newer revision was
\* committed while it was running.  module_ast is in flight from the moment
\* load_ast has read the text of the file and sent the request until the
\* parser service replies; while it waits, request_parse calls the callback
\* load_ast gave it.

\* Database::unwind_if_revision_cancelled: unwinds when the revision the
\* computation runs in was cancelled
unwind_if_revision_cancelled(cancelled) == cancelled

\* a callback that does nothing
no_callback(cancelled) == FALSE

\* the callback load_ast passes to request_parse:
\* || self.unwind_if_revision_cancelled()
load_ast_callback(cancelled) == unwind_if_revision_cancelled(cancelled)

InFlight == [tag |-> "InFlight", val |-> <<>>]
Cancelled == [tag |-> "Cancelled", val |-> <<>>]

\* the texts of the files and the Changes committed
CancelTexts == {BlankText, ChangeText, [parse |-> "err", forms |-> {}]}
CancelChanges ==
    { change_file(NewChange, f, t)
        : f \in Files, t \in {NONE} \cup {Some(x) : x \in CancelTexts} }

\* a newer revision was committed since the computation in res started
CancelRaised == rev > res.started

InitCancel ==
    /\ db \in { [app_data |-> [f \in Files |-> IF f = "f1" THEN AppData(ModA, "App", NONE)
                                                ELSE NoAppData],
                 file_text |-> t,
                 source_root |-> [i \in {0} |-> Files],
                 file_source_root |-> [f \in Files |-> 0]]
                : t \in [Files -> CancelTexts] }
    /\ disk = [p \in BeamPaths |-> NoBeam]
    /\ res = NoRes
    /\ InitStore

\* module_ast is called for a file: without application data of the file
\* it returns at once; otherwise load_ast reads the text of the file and
\* sends the request to the parser service
StartParse(file_id) ==
    /\ res = NoRes
    /\ res' = [q |-> "module_ast", module |-> <<>>, id |-> NoId,
               val |-> IF file_app_data(db, file_id) = NONE
                       THEN module_ast(db, file_id) ELSE InFlight,
               file |-> file_id, started |-> rev, text |-> db.file_text[file_id],
               polled |-> FALSE]
    /\ UNCHANGED <<db, disk, store, tx, clock, builder>>

\* a Change is committed: a new revision
Commit(change) ==
    /\ rev < MaxRev
    /\ res = NoRes \/ res.q = "module_ast"
    /\ db' = apply(change, db)
    /\ rev' = rev + 1
    /\ changed_at' = [i \in Inputs |-> IF i \in InputsSet(change) THEN rev + 1
                                        ELSE changed_at[i]]
    /\ UNCHANGED <<disk, res, memo, executed, tx, clock, builder>>

\* request_parse calls the callback while it waits for the reply; polled
\* records that the computation went on after a poll that followed a commit
Poll ==
    /\ res.q = "module_ast"
    /\ res.val = InFlight
    /\ res' = IF load_ast_callback(CancelRaised)
              THEN [res EXCEPT !.val = Cancelled]
              ELSE [res EXCEPT !.polled = @ \/ CancelRaised]
    /\ UNCHANGED <<db, disk, store, tx, clock, builder>>

\* the parser service replies: request_parse returns the result for the
\* text it was sent, and load_ast and module_ast return it
Reply ==
    /\ res.q = "module_ast"
    /\ res.val = InFlight
    /\ res' = [res EXCEPT !.val = request_parse(FilePath(res.file), res.text)]
    /\ UNCHANGED <<db, disk, store, tx, clock, builder>>

\* the caller takes the result, or the computation has unwound
ReturnParse ==
    /\ res.q = "module_ast"
    /\ res.val # InFlight
    /\ res' = NoRes
    /\ UNCHANGED <<db, disk, store, tx, clock, builder>>

NextCancel ==
    \/ \E f \in Files : StartParse(f)
    \/ \E change \in CancelChanges : Commit(change)
    \/ Poll
    \/ Reply
    \/ ReturnParse

SpecCancel == InitCancel /\ [][NextCancel]_vars

\* ------------------------------------------ the diagnostics entry point

\* The client reads module_diagnostics, the database answering from what it
\* memoized.  eqwalizer_config is the input the query reads; the clock is
\* the one Instant::now() reads, which never goes back.

MaxClock == 2

\* what get_module_diagnostics may return: diagnostics, or an error, given
\* here by the text its Display gives
DiagOutcomes ==
    { Ok(DiagnosticsOf(0)), Ok(DiagnosticsOf(1)), Ok(NoAst),
      Err(<<"timeout">>), Err(<<"Module ", "a", " not found">>) }

InitDiag ==
    /\ db = [app_data |-> [f \in Files |-> IF f = "f1" THEN AppData(ModA, "App", NONE)
                                            ELSE NoAppData],
             file_text |-> [f \in Files |-> BlankText],
             source_root |-> [i \in {0} |-> Files],
             file_source_root |-> [f \in Files |-> 0]]
    /\ disk = [p \in BeamPaths |-> NoBeam]
    /\ res = NoRes
    /\ InitStore

\* time passes
Tick ==
    /\ clock < MaxClock
    /\ clock' = clock + 1
    /\ UNCHANGED <<db, disk, res, store, tx, builder>>

\* set_eqwalizer_config: the input is set, a new revision
SetConfig ==
    /\ res = NoRes
    /\ rev < MaxRev
    /\ rev' = rev + 1
    /\ changed_at' = [changed_at EXCEPT ![EqwalizerConfigInput] = rev + 1]
    /\ executed' = {}
    /\ UNCHANGED <<db, disk, res, memo, tx, clock, builder>>

\* the client reads module_diagnostics(0, m); were the query to run,
\* get_module_diagnostics would return r; outcome records r when it ran
QueryDiagnostics(m, r) ==
    /\ res = NoRes
    /\ LET F == Fetch([db |-> db, disk |-> disk, rev |-> rev, changed_at |-> changed_at,
                       now |-> clock, outcome |-> r],
                      [memo |-> memo, executed |-> {}], DiagnosticsKey(m))
       IN  /\ memo' = F.st.memo
           /\ executed' = F.st.executed
           /\ res' = [q |-> "module_diagnostics", module |-> m, id |-> NoId,
                      val |-> F.val,
                      outcome |-> IF DiagnosticsKey(m) \in F.st.executed
                                  THEN Some(r) ELSE NONE,
                      before |-> memo[DiagnosticsKey(m)]]
    /\ UNCHANGED <<db, disk, rev, changed_at, tx, clock, builder>>

\* the client takes the returned value
ReturnDiag ==
    /\ res # NoRes
    /\ res' = NoRes
    /\ executed' = {}
    /\ UNCHANGED <<db, disk, rev, changed_at, memo, tx, clock, builder>>

NextDiag ==
    \/ Tick
    \/ SetConfig
    \/ \E m \in MemoModules, r \in DiagOutcomes : QueryDiagnostics(m, r)
    \/ ReturnDiag

SpecDiag == InitDiag /\ [][NextDiag]_vars

\* ------------------------------------------ where the AST comes from

\* The client changes the roots, the application structure and the texts,
\* .beam files come and go on disk, and the client asks for converted_stub
\* of a module and for module_ast of a file; io is what the query read
\* outside its arguments.

\* the application structures: those of the first machine, module a in an
\* OTP application without an ebin directory, and module a in a project
\* application with one
SourceApps ==
    AppStructures
    \cup { [f \in Files |-> IF f = "f1" THEN a1 ELSE NoAppData]
            : a1 \in { AppData(ModA, "Otp", NONE), AppData(ModA, "App", Some(EbinDir)) } }

SourceChanges ==
    { set_roots(NewChange, r) : r \in ChangeRoots }
    \cup { set_app_structure(NewChange, a) : a \in SourceApps }
    \cup { change_file(NewChange, f, t)
            : f \in Files, t \in {NONE} \cup {Some(x) : x \in CancelTexts} }

InitSource ==
    /\ db = [app_data |-> [f \in Files |-> NoAppData],
             file_text |-> [f \in Files |-> BlankText],
             source_root |-> [i \in {0} |-> Files],
             file_source_root |-> [f \in Files |-> 0]]
    /\ disk = [p \in BeamPaths |-> NoBeam]
    /\ res = NoRes
    /\ InitStore

\* a Change is applied to the database
ApplySource(change) ==
    /\ res = NoRes
    /\ db' = apply(change, db)
    /\ db' # db
    /\ res' = NoRes
    /\ UNCHANGED <<disk, store, tx, clock, builder>>

\* converted_stub(0, m) is asked for
QueryConverted(m) ==
    /\ res = NoRes
    /\ res' = [q |-> "converted_stub", module |-> m, id |-> NoId,
               val |-> converted_stub(db, disk, 0, m),
               io |-> converted_stub_io(db, 0, m)]
    /\ UNCHANGED <<db, disk, store, tx, clock, builder>>

\* module_ast(file_id) is asked for
QueryModuleAst(file_id) ==
    /\ res = NoRes
    /\ res' = [q |-> "module_ast", module |-> <<>>, id |-> NoId,
               val |-> module_ast(db, file_id),
               io |-> module_ast_io(db, file_id),
               file |-> file_id]
    /\ UNCHANGED <<db, disk, store, tx, clock, builder>>

NextSource ==
    \/ \E change \in SourceChanges : ApplySource(change)
    \/ \E path \in BeamPaths, contents \in BeamFiles : DiskWrite(path, contents)
    \/ \E m \in Modules : QueryConverted(m)
    \/ \E f \in Files : QueryModuleAst(f)
    \/ Return

SpecSource == InitSource /\ [][NextSource]_vars

\* ---------------------------------------------- the diff of the tokens

\* The client asks for the edits that turn the tokens it holds into the new
\* tokens of the file.

MaxTokens == 4

\* the tokens of the tests
TokenA == SemanticToken(<<1, 2, 3, 4, 5>>)
TokenB == SemanticToken(<<6, 7, 8, 9, 10>>)
TokenC == SemanticToken(<<11, 12, 13, 14, 15>>)

\* the token lists of at most MaxTokens tokens
TokenLists == UNION { [1..n -> {TokenA, TokenB, TokenC}] : n \in 0..MaxTokens }

InitDiff ==
    /\ db = [app_data |-> [f \in Files |-> NoAppData],
             file_text |-> [f \in Files |-> BlankText],
             source_root |-> [i \in {0} |-> Files],
             file_source_root |-> [f \in Files |-> 0]]
    /\ disk = [p \in BeamPaths |-> NoBeam]
    /\ res = NoRes
    /\ InitStore

\* diff_tokens(old, new) is called
DiffTokens(old, new) ==
    /\ res = NoRes
    /\ res' = [q |-> "diff_tokens", module |-> <<>>, id |-> NoId,
               val |-> diff_tokens(old, new), old |-> old, new |-> new]
    /\ UNCHANGED <<db, disk, store, tx, clock, builder>>

NextDiff ==
    \/ /\ res = NoRes
       /\ \E old \in TokenLists, new \in TokenLists : DiffTokens(old, new)
    \/ Return

SpecDiff == InitDiff /\ [][NextDiff]_vars

\* ------------------------------------------------------------ the claims

\* ------------------------------------------------- the byte-form lookups

\* The client changes the project and asks for the byte form of a
\* declaration or of a transitive stub.

BytesQueries ==
    {"type_decl_bytes", "rec_decl_bytes", "fun_spec_bytes",
     "overloaded_fun_spec_bytes"}

\* the value of a byte-form query of the EqwalizerDiagnosticsDatabase group
EvalBytes(d, dk, q, m, x) ==
    CASE q = "type_decl_bytes" -> type_decl_bytes(d, dk, 0, m, x)
      [] q = "rec_decl_bytes" -> rec_decl_bytes(d, dk, 0, m, x)
      [] q = "fun_spec_bytes" -> fun_spec_bytes(d, dk, 0, m, x)
      [] q = "overloaded_fun_spec_bytes" -> overloaded_fun_spec_bytes(d, dk, 0, m, x)
      [] q = "transitive_stub_bytes" -> transitive_stub_bytes(d, dk, 0, m)

\* the byte form of a declaration is looked up
QueryBytes(q, m, x) ==
    /\ res = NoRes
    /\ res' = [q |-> q, module |-> m, id |-> x, val |-> EvalBytes(db, disk, q, m, x)]
    /\ UNCHANGED <<db, disk, store, tx, clock, builder>>

\* the byte form of a transitive stub is asked for
QueryStubBytes(m) ==
    /\ res = NoRes
    /\ res' = [q |-> "transitive_stub_bytes", module |-> m, id |-> NoId,
               val |-> EvalBytes(db, disk, "transitive_stub_bytes", m, NoId)]
    /\ UNCHANGED <<db, disk, store, tx, clock, builder>>

NextBytes ==
    \/ \E change \in Changes : Apply(change)
    \/ \E path \in BeamPaths, contents \in BeamFiles : DiskWrite(path, contents)
    \/ \E q \in BytesQueries, x \in QueryIds : QueryBytes(q, ModA, x)
    \/ \E m \in Modules : QueryStubBytes(m)
    \/ Return

SpecBytes == Init /\ [][NextBytes]_vars

\* --------------------------------- memoized stubs and the .beam files

\* The client of the memoizing database, while .beam files are written and
\* removed on disk: module a in file f1 is given application data and
\* texts, and its converted and transitive stubs are read.

BeamChanges ==
    { change_file(NewChange, "f1", Some(x)) : x \in MemoTexts("f1") }
    \cup { set_app_structure(NewChange, a) : a \in MemoAppStructures }

BeamQueries ==
    { StubKey("converted_stub", ModA), StubKey("transitive_stub", ModA) }

NextBeam ==
    \/ \E change \in BeamChanges : ApplyMemo(change)
    \/ \E path \in BeamPaths, contents \in BeamFiles : DiskWrite(path, contents)
    \/ \E k \in BeamQueries : QueryMemo(k)
    \/ ReturnMemo

SpecBeam == InitMemo /\ [][NextBeam]_vars

\* ------------------------------------------------ SemanticTokensBuilder

\* The client makes a builder, pushes tokens and builds the result.

MaxLine == 1
MaxChar == 2
MaxPushes == 3

Positions == { Position(l, c) : l \in 0 .. MaxLine, c \in 0 .. MaxChar }

\* a range of one line whose end is not before its start
SingleLine(r) ==
    /\ r.start.line = r.end.line
    /\ r.start.character <= r.end.character

\* the ranges passed to push: every single-line range, a range of two lines
\* and a range whose end is before its start
PushRanges ==
    { r \in { Range(a, b) : a, b \in Positions } : SingleLine(r) }
    \cup { Range(Position(0, MaxChar), Position(1, 0)),
           Range(Position(0, 1), Position(0, 0)) }

\* the token type and the modifiers passed to push
TokenIndexes == {3}
ModifierBitsets == {1}

\* SemanticTokensBuilder::new: the client starts a new builder
NewBuilder ==
    /\ res = NoRes
    /\ builder # SemanticTokensBuilder_new
    /\ builder' = SemanticTokensBuilder_new
    /\ UNCHANGED <<db, disk, res, store, tx, clock>>

\* SemanticTokensBuilder::push; `checked` tells whether the build panics on
\* an overflowing subtraction or wraps
Push(range, token_index, modifier_bitset, checked) ==
    /\ res = NoRes
    /\ ~builder.aborted
    /\ Len(builder.pushed) < MaxPushes
    /\ builder' =
          IF checked /\ push_underflows(builder, range)
          THEN [builder EXCEPT !.aborted = TRUE, !.pushed = Append(@, range)]
          ELSE [push(builder, range, token_index, modifier_bitset)
                    EXCEPT !.pushed = Append(@, range)]
    /\ UNCHANGED <<db, disk, res, store, tx, clock>>

\* SemanticTokensBuilder::build
Build ==
    /\ res = NoRes
    /\ ~builder.aborted
    /\ res' = [q |-> "build", module |-> <<>>, id |-> NoId, val |-> Ok(builder.data)]
    /\ UNCHANGED <<db, disk, store, tx, clock, builder>>

InitTokens ==
    /\ db = [app_data |-> [f \in Files |-> NoAppData],
             file_text |-> [f \in Files |-> BlankText],
             source_root |-> [i \in {0} |-> Files],
             file_source_root |-> [f \in Files |-> 0]]
    /\ disk = [p \in BeamPaths |-> NoBeam]
    /\ res = NoRes
    /\ InitStore

NextTokens ==
    \/ NewBuilder
    \/ (res = NoRes /\ \E range \in PushRanges, i \in TokenIndexes,
                         m \in ModifierBitsets, checked \in BOOLEAN :
                         Push(range, i, m, checked))
    \/ Build
    \/ Return

SpecTokens == InitTokens /\ [][NextTokens]_vars

\* the Id under which an override for (module, id) is declared in a
\* reserved module: 'module:name' with the arity of id
Encoded(module, id) == Id(module \o <<":">> \o id.name, id.arity)

TypesStub == transitive_stub(db, disk, 0, EQWALIZER_TYPES)
SpecsStub == transitive_stub(db, disk, 0, EQWALIZER_SPECS)
OwnStub(m) == transitive_stub(db, disk, 0, m)

\* what a lookup gives when it is answered from the module's own transitive
\* stub: the entry of the map, none when absent, the stub's error otherwise
FromOwn(m, field, x) ==
    IF IsOk(OwnStub(m)) THEN Ok(Get(OwnStub(m).val[field], x)) ELSE OwnStub(m)

IsSome(r) == IsOk(r) /\ r.val # NONE

\* C1: whenever eqwalizer_types declares a type under the encoded name
\* 'M:X.name' with X's arity, type_decl(P, M, X) returns that declaration;
\* and type_decl returns the entry of M's own stub only when eqwalizer_types
\* declares no such type.
C1Original ==
    res.q = "type_decl" =>
        LET enc == Encoded(res.module, res.id)
            declared == IsOk(TypesStub) /\ enc \in DOMAIN TypesStub.val.types
        IN  /\ declared => res.val = Ok(Some(TypesStub.val.types[enc]))
            /\ (IsSome(res.val) /\ res.val = FromOwn(res.module, "types", res.id))
                  => ~declared

CustomPlain == custom_fun_specs(db, disk, 0)
CustomOverloaded == custom_overloaded_fun_specs(db, disk, 0)

\* X appears for M in the map a custom_* query returned
InMap(r, m, x) == IsOk(r) /\ GetIn(r.val, m, x) # NONE

\* C2: whenever custom_overloaded_fun_specs(P) holds an entry for (M, X),
\* fun_spec(P, M, X) returns none and overloaded_fun_spec(P, M, X) returns
\* that entry.
C2Original ==
    InMap(CustomOverloaded, res.module, res.id) =>
        /\ res.q = "fun_spec" => res.val = Ok(NONE)
        /\ res.q = "overloaded_fun_spec" =>
              res.val = Ok(GetIn(CustomOverloaded.val, res.module, res.id))

\* C3: whenever custom_fun_specs(P) holds an entry for (M, X) and the map of
\* custom_overloaded_fun_specs(P) holds none, fun_spec(P, M, X) returns the
\* entry of custom_fun_specs and overloaded_fun_spec(P, M, X) returns none,
\* whatever M's own stub holds for X.
C3Thm ==
    (/\ InMap(CustomPlain, res.module, res.id)
     /\ IsOk(CustomOverloaded)
     /\ ~InMap(CustomOverloaded, res.module, res.id)) =>
        /\ res.q = "fun_spec" =>
              /\ IsSome(res.val)
              /\ res.val.val.v \in
                    {SpecsStub.val.specs[e] : e \in
                        {d \in DOMAIN SpecsStub.val.specs :
                            d = Encoded(res.module, res.id)}}
        /\ res.q = "overloaded_fun_spec" => res.val = Ok(NONE)

\* C3 happens: fun_spec answered with a custom plain spec while the module's
\* own stub lists the Id as an overloaded spec
C3Witness ==
    /\ res.q = "fun_spec"
    /\ InMap(CustomPlain, res.module, res.id)
    /\ IsOk(CustomOverloaded)
    /\ ~InMap(CustomOverloaded, res.module, res.id)
    /\ IsOk(OwnStub(res.module))
    /\ res.id \in DOMAIN OwnStub(res.module).val.overloaded_specs
    /\ IsSome(res.val)

\* C4: whenever the maps of custom_fun_specs(P) and
\* custom_overloaded_fun_specs(P) both hold no entry for (M, X),
\* fun_spec(P, M, X) is the entry for X of the specs map of
\* transitive_stub(P, M) and overloaded_fun_spec(P, M, X) the entry of its
\* overloaded_specs map, none when absent, and both are the error of
\* transitive_stub(P, M) when it fails.
C4Thm ==
    (/\ IsOk(CustomPlain) /\ ~InMap(CustomPlain, res.module, res.id)
     /\ IsOk(CustomOverloaded) /\ ~InMap(CustomOverloaded, res.module, res.id)) =>
        /\ res.q = "fun_spec" => res.val = FromOwn(res.module, "specs", res.id)
        /\ res.q = "overloaded_fun_spec" =>
              res.val = FromOwn(res.module, "overloaded_specs", res.id)

\* C4 happens: a spec lookup answered from the module's own stub while a
\* custom spec map is not empty
C4Witness ==
    /\ res.q = "overloaded_fun_spec"
    /\ IsOk(CustomPlain) /\ ~InMap(CustomPlain, res.module, res.id)
    /\ IsOk(CustomOverloaded) /\ ~InMap(CustomOverloaded, res.module, res.id)
    /\ DOMAIN CustomPlain.val # {}
    /\ IsSome(res.val)

\* C4 happens in its error case: the module's own stub fails and the spec
\* lookup returns that error
C4WitnessErr ==
    /\ res.q = "fun_spec"
    /\ IsOk(CustomPlain) /\ IsOk(CustomOverloaded)
    /\ IsErr(OwnStub(res.module))
    /\ res.val = OwnStub(res.module)

\* every stub holds each Id in at most one of specs and overloaded_specs
StubsExclusive ==
    \A m \in Modules :
        IsOk(OwnStub(m)) =>
            DOMAIN OwnStub(m).val.specs \cap DOMAIN OwnStub(m).val.overloaded_specs = {}

\* C5: provided every stub holds each Id in at most one of its specs and
\* overloaded_specs maps, at most one of fun_spec(P, M, X) and
\* overloaded_fun_spec(P, M, X) returns a spec.
C5Thm ==
    StubsExclusive =>
        /\ (res.q = "fun_spec" /\ IsSome(res.val)) =>
              ~IsSome(overloaded_fun_spec(db, disk, 0, res.module, res.id))
        /\ (res.q = "overloaded_fun_spec" /\ IsSome(res.val)) =>
              ~IsSome(fun_spec(db, disk, 0, res.module, res.id))

\* C5 happens: fun_spec returns a custom plain spec for an Id that the
\* module's own stub lists as an overloaded spec
C5Witness ==
    /\ res.q = "fun_spec" /\ IsSome(res.val)
    /\ IsOk(OwnStub(res.module))
    /\ res.id \in DOMAIN OwnStub(res.module).val.overloaded_specs

NoTypesModule == file_for_module(db, 0, EQWALIZER_TYPES) = NONE
NoSpecsModule == file_for_module(db, 0, EQWALIZER_SPECS) = NONE

\* C6: when the module index has no module eqwalizer_types, custom_types
\* returns Ok of the empty map and type_decl gives what the module's own
\* transitive stub gives; when it has no module eqwalizer_specs,
\* custom_fun_specs and custom_overloaded_fun_specs return Ok of the empty
\* map and fun_spec and overloaded_fun_spec give what the module's own
\* transitive stub gives.
C6Thm ==
    /\ NoTypesModule =>
          /\ res.q = "custom_types" => res.val = Ok(EmptyMap)
          /\ res.q = "type_decl" => res.val = FromOwn(res.module, "types", res.id)
    /\ NoSpecsModule =>
          /\ res.q \in {"custom_fun_specs", "custom_overloaded_fun_specs"} =>
                res.val = Ok(EmptyMap)
          /\ res.q = "fun_spec" => res.val = FromOwn(res.module, "specs", res.id)
          /\ res.q = "overloaded_fun_spec" =>
                res.val = FromOwn(res.module, "overloaded_specs", res.id)

\* C6 happens: without a module eqwalizer_types, type_decl returns the
\* declaration of the module's own stub
C6Witness ==
    /\ NoTypesModule
    /\ res.q = "type_decl"
    /\ IsSome(res.val)

\* C6 happens for the maps: custom_fun_specs is asked without a module
\* eqwalizer_specs
C6WitnessMap ==
    /\ NoSpecsModule
    /\ res.q = "custom_fun_specs"
    /\ IsOk(res.val)

\* the declarations of the reserved module a custom_* query reads
ReservedField(q) ==
    CASE q = "custom_types" -> [stub |-> TypesStub, field |-> "types"]
      [] q = "custom_fun_specs" -> [stub |-> SpecsStub, field |-> "specs"]
      [] q = "custom_overloaded_fun_specs" ->
            [stub |-> SpecsStub, field |-> "overloaded_specs"]

\* C7: in each of the three override maps, an entry of the reserved module
\* declared under 'M:N' is stored under module M with the Id whose name is
\* the whole remainder N after the first colon and whose arity is unchanged.
C7Original ==
    (res.q \in CustomQueries /\ IsOk(res.val)) =>
        LET src == ReservedField(res.q)
        IN  IsOk(src.stub) =>
                \A enc \in DOMAIN src.stub.val[src.field] :
                    split_once(enc.name) # NONE =>
                        GetIn(res.val.val,
                              split_once(enc.name).v[1],
                              Id(split_once(enc.name).v[2], enc.arity))
                          = Some(src.stub.val[src.field][enc])

LaterStages ==
    {"expanded_stub", "contractive_stub", "transitive_stub",
     "transitive_stub_bytes", "rec_decl", "callbacks"}

\* C8: if converted_stub fails with error e for a module, then
\* expanded_stub, contractive_stub, transitive_stub, transitive_stub_bytes,
\* rec_decl and callbacks of that module fail with the same e; and an error
\* of expanded_stub is returned unchanged by contractive_stub and every
\* later stage.
C8Thm ==
    /\ (res.q \in LaterStages /\ IsErr(converted_stub(db, disk, 0, res.module))) =>
          res.val = converted_stub(db, disk, 0, res.module)
    /\ (res.q \in LaterStages \ {"expanded_stub"}
          /\ IsErr(expanded_stub(db, disk, 0, res.module))) =>
          res.val = expanded_stub(db, disk, 0, res.module)

\* C8 happens: callbacks fails with the parse error of converted_stub
C8Witness ==
    /\ res.q = "callbacks"
    /\ IsErr(res.val)
    /\ res.val.val.kind = "ParseError"
    /\ res.val = converted_stub(db, disk, 0, res.module)

\* C8 happens for the second stage: rec_decl fails with the error the
\* expander gave, converted_stub being Ok
C8WitnessExpand ==
    /\ res.q = "rec_decl"
    /\ IsOk(converted_stub(db, disk, 0, res.module))
    /\ IsErr(res.val)
    /\ res.val.val.kind = "TypeConversionError"

\* the fact the client read last
ResKey ==
    CASE res.q \in MemoStages -> StubKey(res.q, res.module)
      [] res.q = "custom_types" -> CustomTypesKey
      [] res.q = "type_decl" -> TypeDeclKey(res.module, res.id)
      [] OTHER -> <<"none">>

\* the value of the fact k derived from the inputs as they are
Derive(k) ==
    Eval(db, disk, k[1],
         IF Len(k) >= 2 THEN k[2] ELSE <<>>,
         IF Len(k) >= 3 THEN k[3] ELSE NoId)

RECURSIVE Reads(_, _)
\* the recorded dependencies of the memoized fact k, followed down to the
\* inputs
Reads(mm, k) ==
    IF k \in Inputs \/ ~mm[k].present THEN {}
    ELSE UNION { {mm[k].deps[i]} \cup Reads(mm, mm[k].deps[i]) : i \in DOMAIN mm[k].deps }

\* in the database with inputs set at ca and memoized facts mm, the fact d
\* has a result newer than revision v
ChangedAfter(ca, mm, d, v) ==
    IF d \in Inputs THEN ca[d] > v
    ELSE mm[d].present /\ mm[d].changed_at > v

\* the step in which the client reads fact k, memoized before, after the
\* text of a file among its recorded dependencies was replaced
ReadAfterChange(k, f) ==
    /\ res = NoRes
    /\ res'.q = k[1]
    /\ ResKey' = k
    /\ memo[k].present
    /\ FileTextInput(f) \in Reads(memo, k)
    /\ changed_at[FileTextInput(f)] > memo[k].verified_at

\* C9 as the spec states it: a memoized stub that recorded a dependency on
\* file f is recomputed on its first access after change_file(f, new_text)
\* was applied, and the access returns the value derived from new_text.
C9Original ==
    [][\A k \in MemoQueries, f \in Files :
          ReadAfterChange(k, f) =>
              /\ k \in executed'
              /\ res'.val = Derive(k)]_vars

\* C9, amended: on that access the stub is validated against what it read.
\* The access returns the value derived from new_text; the stub is
\* recomputed only if a fact it read directly has a new result, and if one
\* has, the stub is recomputed or the access aborts.
C9Thm ==
    [][\A k \in MemoQueries, f \in Files :
          ReadAfterChange(k, f) =>
              LET read_changed ==
                      \E i \in DOMAIN memo[k].deps :
                          ChangedAfter(changed_at', memo', memo[k].deps[i],
                                       memo[k].verified_at)
              IN  /\ res'.val = Derive(k)
                  /\ k \in executed' => read_changed
                  /\ read_changed => (k \in executed' \/ res'.val.tag = "Panic")]_vars

\* f2 was given a new text, and type_decl, computed before, was computed
\* again and returns the override the new text declares
C9Witness ==
    /\ res.q = "type_decl"
    /\ ResKey \in executed
    /\ memo[ResKey].runs = 2
    /\ changed_at[FileTextInput("f2")] = rev
    /\ res.val = Ok(Some([id |-> Id(NameAF, 0), body |-> Base("atom")]))

\* f1 was given a new text that leaves the converted stub as it was: the
\* transitive stub of a, which recorded the dependency, was validated in
\* the new revision and not computed again
C9WitnessBackDated ==
    /\ res.q = "transitive_stub"
    /\ res.module = ModA
    /\ ResKey \notin executed
    /\ StubKey("converted_stub", ModA) \in executed
    /\ FileTextInput("f1") \in Reads(memo, ResKey)
    /\ changed_at[FileTextInput("f1")] = rev
    /\ rev > 0
    /\ memo[ResKey].verified_at = rev
    /\ memo[ResKey].runs = 1

\* the step in which the client reads fact k, memoized before, when every
\* input set since is the text of a file that is not among the recorded
\* dependencies of k
ReadAfterUnrelatedChange(k) ==
    /\ res = NoRes
    /\ res'.q = k[1]
    /\ ResKey' = k
    /\ memo[k].present
    /\ memo[k].verified_at < rev
    /\ \A i \in Inputs :
          changed_at[i] > memo[k].verified_at =>
              /\ i \in {FileTextInput(f) : f \in Files}
              /\ i \notin Reads(memo, k)

\* C10: after Changes that only replace the text of files a memoized stub
\* recorded no dependency on, an access of the stub computes neither the
\* stub nor anything else and returns the memoized value.
C10Thm ==
    [][\A k \in MemoQueries :
          ReadAfterUnrelatedChange(k) =>
              /\ executed' = {}
              /\ res'.val = memo[k].value
              /\ memo'[k].runs = memo[k].runs]_vars

\* the text of f1 was replaced, and the transitive stub of eqwalizer_types,
\* which reads f2 only, was returned from the memo
C10Witness ==
    /\ res.q = "transitive_stub"
    /\ res.module = EQWALIZER_TYPES
    /\ rev > 0
    /\ changed_at[FileTextInput("f1")] = rev
    /\ changed_at[FileTextInput("f2")] < rev
    /\ changed_at[AppStructureInput] < rev
    /\ FileTextInput("f2") \in Reads(memo, ResKey)
    /\ FileTextInput("f1") \notin Reads(memo, ResKey)
    /\ executed = {}
    /\ memo[ResKey].verified_at = rev
    /\ memo[ResKey].runs = 1
    /\ res.val = memo[ResKey].value

\* the database before the Change the client is staging or applying, and
\* the database after the whole of it
BeforeChange == IF tx.pc = "staging" THEN db ELSE tx.before
AfterChange == apply(tx.change, BeforeChange)

\* C12: Change::apply is atomic for readers: whatever a reader reads of the
\* inputs is the state before the whole Change or the state after the whole
\* Change, never a state in which only some of the writes of apply are done.
C12Thm ==
    [][(res.q # "observe" /\ res'.q = "observe")
         => (res'.val = Ok(BeforeChange) \/ res'.val = Ok(AfterChange))]_vars

\* apply is half way through a Change that sets the roots, the application
\* structure and two texts: the database is neither the one before nor the
\* one after, and no reader has read it
C12Witness ==
    /\ tx.pc = "files"
    /\ tx.i = 2
    /\ tx.change.roots # NONE
    /\ tx.change.app_structure # NONE
    /\ Len(tx.change.files_changed) = 2
    /\ db # tx.before
    /\ db # apply(tx.change, tx.before)
    /\ res.q # "observe"

\* C13: Change::apply returns exactly the FileIds staged with change_file,
\* one entry for every call and in the order of the calls; a file that only
\* set_roots or set_app_structure touches is not in the list, and without a
\* change_file call the list is empty.
C13Thm == tx.pc = "done" => (res.q = "apply" /\ res.val = Ok(tx.calls))

\* apply has returned from a Change in which change_file was called twice
\* for f2 and set_roots and set_app_structure touch f1
C13Witness ==
    /\ tx.pc = "done"
    /\ tx.calls = <<"f2", "f2">>
    /\ tx.change.roots = Some(<<{"f1"}>>)
    /\ tx.change.app_structure # NONE
    /\ res.val = Ok(<<"f2", "f2">>)

\* apply has returned from a Change that only sets the roots and the
\* application structure
C13WitnessEmpty ==
    /\ tx.pc = "done"
    /\ tx.calls = <<>>
    /\ tx.change.roots # NONE
    /\ tx.change.app_structure # NONE
    /\ db # tx.before
    /\ res.val = Ok(<<>>)

\* the database holds exactly the roots of the table R
HoldsExactly(R) ==
    /\ DOMAIN db.source_root = 0 .. Len(R) - 1
    /\ \A i \in 0 .. Len(R) - 1 : db.source_root[i] = R[i + 1]

\* the reverse index agrees with the root table
ReverseIndexAgrees ==
    \A f \in DOMAIN db.file_source_root :
        /\ db.file_source_root[f] \in DOMAIN db.source_root
        /\ f \in db.source_root[db.file_source_root[f]]

\* C14: after a Change with set_roots(R) is applied, the database holds
\* exactly the roots of R (root i = R[i]), no root of an earlier Change
\* survives, and file_source_root(f) = i implies that f is a member of
\* root i.
C14Original ==
    (tx.pc = "done" /\ tx.change.roots # NONE)
        => (HoldsExactly(tx.change.roots.v) /\ ReverseIndexAgrees)

\* C15: a change_file(f, None) staged in a Change blanks f when the Change
\* is applied: the text of f is the empty string (unless a later change_file
\* of the same Change gives f a text), f is still a file of the database and
\* f is in the list apply returns, at the place of the call.
C15Thm ==
    tx.pc = "done" =>
        \A i \in DOMAIN tx.change.files_changed :
            LET fc == tx.change.files_changed
                f == fc[i][1]
            IN  fc[i][2] = NONE =>
                    /\ f \in DOMAIN db.file_text
                    /\ f \in DOMAIN db.file_source_root
                    /\ res.val.val[i] = f
                    /\ (\A j \in DOMAIN fc : j > i => fc[j][1] # f)
                           => db.file_text[f] = BlankText

\* apply has returned from a Change that staged change_file(f1, None) for a
\* file that held a text
C15Witness ==
    /\ tx.pc = "done"
    /\ tx.change.files_changed = << <<"f1", NONE>> >>
    /\ tx.before.file_text["f1"] = ChangeText
    /\ db.file_text["f1"] = BlankText
    /\ res.val = Ok(<<"f1">>)

\* C17: idempotence of the pipeline: as long as no Change is applied, a
\* computation of the converted, expanded, contractive and transitive stub
\* of a module from an empty cache yields the same result (equal stubs or
\* equal errors) as the computation before it.
C17Original ==
    [][db' = db =>
          \A q \in PipelineStages, m \in Modules :
              SameValue(Eval(db, disk, q, m, NoId), Eval(db', disk', q, m, NoId))]_vars

\* the contractive stub of module a was returned and declares type x as form
DeclaredAs(x, form) ==
    /\ res.q = "contractive_stub"
    /\ res.module = ModA
    /\ IsOk(res.val)
    /\ x \in DOMAIN res.val.val.stub.types
    /\ res.val.val.stub.types[x] = Decl(form)

\* C18: contractive_stub classifies a type declared as t() = t() as
\* non-productive and a type declared as u() = {leaf} | {node, u()} as
\* productive.
C18Thm ==
    /\ DeclaredAs(IdT, LoopForm) => ~res.val.val.productive[IdT]
    /\ DeclaredAs(IdU, TreeForm) => res.val.val.productive[IdU]

\* the contractive stub of a module that declares both types was returned
C18Witness ==
    /\ DeclaredAs(IdT, LoopForm)
    /\ DeclaredAs(IdU, TreeForm)
    /\ ~res.val.val.productive[IdT]
    /\ res.val.val.productive[IdU]

\* the stage before stage q
StageBefore(q) ==
    CASE q = "contractive_stub" -> "expanded_stub"
      [] q = "transitive_stub" -> "contractive_stub"

\* a declaration of module m that refers to no other declaration
RefersToItselfOnly(m, x, decl) == TypeRefs(m, decl.body) \subseteq {<<m, x>>}

\* C19: a contractivity or transitivity violation is not fatal:
\* contractive_stub returns an error exactly when expanded_stub does, and
\* transitive_stub exactly when contractive_stub does (the same error); the
\* contractive stub holds every declaration of the expanded stub, and the
\* transitive stub every productive declaration that refers to no other.
C19Thm ==
    (res.q \in {"contractive_stub", "transitive_stub"}) =>
        LET before == Eval(db, disk, StageBefore(res.q), res.module, NoId)
            v == Eval(db, disk, "contractive_stub", res.module, NoId)
        IN  /\ IsOk(res.val) <=> IsOk(before)
            /\ ~IsOk(res.val) => (res.val.tag = before.tag /\ res.val = before)
            /\ (res.q = "contractive_stub" /\ IsOk(res.val))
                  => res.val.val.stub = before.val
            /\ (res.q = "transitive_stub" /\ IsOk(res.val))
                  => \A x \in DOMAIN v.val.stub.types :
                        (/\ v.val.productive[x]
                         /\ RefersToItselfOnly(res.module, x, v.val.stub.types[x]))
                            => /\ x \in DOMAIN res.val.val.types
                               /\ res.val.val.types[x] = v.val.stub.types[x]

\* the transitive stub of a module with the non-productive type t() and the
\* type v() was returned: it is Ok and holds v()
C19Witness ==
    /\ res.q = "transitive_stub"
    /\ res.module = ModA
    /\ IsOk(res.val)
    /\ LET v == contractive_stub(db, disk, 0, ModA)
       IN  /\ IsOk(v)
           /\ IdT \in DOMAIN v.val.productive
           /\ ~v.val.productive[IdT]
           /\ IdV \in DOMAIN v.val.stub.types
    /\ IdV \in DOMAIN res.val.val.types
    /\ IdT \notin DOMAIN res.val.val.types

\* the contractive stub of a module is an error, the one of its expanded
\* stub
C19WitnessErr ==
    /\ res.q = "contractive_stub"
    /\ ~IsOk(res.val)
    /\ res.val = expanded_stub(db, disk, 0, res.module)

\* the type declaration <<module, id>> exists
Declared(r) == DeclaredIn(TypeDecls(ExpandedStubs(db, disk, 0, ModA)), r)

RECURSIVE ReachableFrom(_)
\* the declarations reachable from the declarations S by references
ReachableFrom(S) ==
    LET more == UNION { TypeRefs(r[1], TypeDecls(ExpandedStubs(db, disk, 0, ModA))[r[1]][r[2]].body)
                          : r \in {q \in S : Declared(q)} }
    IN  IF more \subseteq S THEN S ELSE ReachableFrom(S \cup more)

\* the transitive stub of module m keeps the declaration r[2]
KeptIn(m, r) ==
    LET s == transitive_stub(db, disk, 0, m)
    IN  IsOk(s) /\ r[2] \in DOMAIN s.val.types

C20WitnessDropped ==
    /\ res.q = "transitive_stub"
    /\ res.module = ModA
    /\ IsOk(res.val)
    /\ Declared(<<ModA, IdW>>)
    /\ Declared(<<ModB, IdX>>)
    /\ <<ModB, IdZ>> \in ReachableFrom({<<ModA, IdW>>})
    /\ ~Declared(<<ModB, IdZ>>)
    /\ IdW \notin DOMAIN res.val.val.types

C11WitnessReply ==
    /\ res.q = "module_ast"
    /\ IsOk(res.val)
    /\ rev > res.started
    /\ db.file_text[res.file] # res.text
    /\ ~res.polled

\* t contains s
IsInfix(s, t) ==
    \E i \in 0..(Len(t) - Len(s)) : SubSeq(t, i + 1, i + Len(s)) = s

\* the call in res ran module_diagnostics
DiagnosticsRan == res.q = "module_diagnostics" /\ res.outcome # NONE

\* C21: module_diagnostics never fails: it returns a pair of a payload and
\* a timestamp; when get_module_diagnostics returned error e for module M
\* the payload is EqwalizerDiagnostics::Error with a text that names M and
\* carries e's message; when it returned Ok(d) the payload is d unchanged.
C21Thm ==
    DiagnosticsRan =>
        /\ res.val.tag = "Pair"
        /\ Len(res.val.val) = 2
        /\ res.val.val[2] \in 0..clock
        /\ IsOk(res.outcome.v) => res.val.val[1] = res.outcome.v.val
        /\ IsErr(res.outcome.v) =>
              /\ res.val.val[1].kind = "Error"
              /\ IsInfix(res.module, res.val.val[1].text)
              /\ IsInfix(res.outcome.v.val, res.val.val[1].text)

C21Witness ==
    /\ DiagnosticsRan
    /\ IsErr(res.outcome.v)
    /\ res.module = EQWALIZER_TYPES
    /\ res.val.val[1].text =
          <<"eqWAlizing module ", "eqwalizer_types", ":", "\n", "timeout">>

C21WitnessOk ==
    /\ DiagnosticsRan
    /\ res.outcome.v = Ok(DiagnosticsOf(1))
    /\ res.val = Pair(DiagnosticsOf(1), 1)

\* C22: every computation of module_diagnostics yields a value different
\* from the value computed before for the same key, so the recomputed value
\* is never back-dated: it changed in the revision it was computed in, also
\* when the payload is the same.
C22Original ==
    (DiagnosticsRan /\ res.before.present) =>
        /\ res.val # res.before.value
        /\ memo[DiagnosticsKey(res.module)].changed_at = rev

\* the call in res is converted_stub of a module
ConvertedAsked == res.q = "converted_stub"

\* the module index has a file for module m
Indexed(m) == \E f \in Files : db.app_data[f].present /\ db.app_data[f].module = m

\* the effects of kind k among those the call in res made
Effects(k) == {i \in DOMAIN res.io : res.io[i][1] = k}

\* C23: converted_stub(P, M) returns ModuleNotFound carrying M's name
\* exactly when the module index of P has no file for M, and then neither a
\* .beam file is read nor the AST of the parser requested.
C23Thm ==
    ConvertedAsked =>
        /\ (res.val = Err(ModuleNotFound(res.module))) <=> ~Indexed(res.module)
        /\ (IsErr(res.val) /\ res.val.val.kind = "ModuleNotFound") => ~Indexed(res.module)
        /\ ~Indexed(res.module) => res.io = <<>>

C23Witness ==
    /\ ConvertedAsked
    /\ res.module = EQWALIZER_SPECS
    /\ Indexed(ModA)
    /\ ~Indexed(EQWALIZER_SPECS)
    /\ res.val = Err(ModuleNotFound(EQWALIZER_SPECS))
    /\ res.io = <<>>

C23WitnessFound ==
    /\ ConvertedAsked
    /\ Indexed(res.module)
    /\ IsOk(res.val)

\* the file the module index has for the module of the call in res
FileOfAsked == CHOOSE f \in Files : db.app_data[f].present /\ db.app_data[f].module = res.module

\* the module of the call in res is of an OTP application with a known
\* ebin directory
OtpWithEbin ==
    /\ db.app_data[FileOfAsked].app_type = "Otp"
    /\ db.app_data[FileOfAsked].ebin_path # NONE

\* <ebin>/<Module>.beam
BeamPathOfAsked ==
    db.app_data[FileOfAsked].ebin_path.v \o <<"/">> \o res.module \o <<".beam">>

\* C24: for a module the index has a file for, converted_stub decodes the
\* AST from <ebin>/<Module>.beam exactly when the file's application data is
\* of OTP kind with a known ebin path; when that file cannot be read the
\* result is BEAMNotFound with the attempted path and the parser is not
\* asked; in every other case the bytes of the parser are asked for and
\* used, and no file is read.
C24Thm ==
    (ConvertedAsked /\ Indexed(res.module)) =>
        /\ Effects("fs_read") # {} <=> OtpWithEbin
        /\ OtpWithEbin =>
              /\ res.io = << <<"fs_read", BeamPathOfAsked>> >>
              /\ IF BeamPathOfAsked \in DOMAIN disk /\ disk[BeamPathOfAsked].present
                 THEN res.val = from_beam(disk[BeamPathOfAsked])
                 ELSE res.val = Err(BEAMNotFound(BeamPathOfAsked))
        /\ ~OtpWithEbin =>
              /\ res.io[1] = <<"erl_ast_bytes", res.module>>
              /\ LET bytes == erl_ast_bytes(db, 0, res.module)
                 IN  res.val = IF IsOk(bytes) THEN from_bytes(bytes.val, TRUE) ELSE bytes

C24Witness ==
    /\ ConvertedAsked
    /\ Indexed(res.module)
    /\ OtpWithEbin
    /\ disk[BeamPathOfAsked].present
    /\ db.file_text["f1"] = ChangeText
    /\ res.val = Ok([forms |-> {Form("type", NameF, 0, "beam_type")}])

C24WitnessMissing ==
    /\ ConvertedAsked
    /\ Indexed(res.module)
    /\ OtpWithEbin
    /\ ~disk[BeamPathOfAsked].present
    /\ db.file_text["f1"] = ChangeText
    /\ res.val = Err(BEAMNotFound(<<"/otp/ebin", "/", "a", ".beam">>))

C24WitnessParser ==
    /\ ConvertedAsked
    /\ Indexed(res.module)
    /\ db.app_data[FileOfAsked] \in {AppData(ModA, "Otp", NONE), AppData(ModA, "App", Some(EbinDir))}
    /\ disk[EbinDir \o <<"/">> \o ModA \o <<".beam">>].present
    /\ IsOk(res.val)
    /\ res.io = << <<"erl_ast_bytes", ModA>>, <<"request_parse", FilePath("f1")>> >>

\* C25: module_ast(f) for a file f without application data returns the
\* parse error with the path of the file, no location, the message
\* 'Unknown application' and the code 'L0003', and sends no request to the
\* parser service.
C25Original ==
    (res.q = "module_ast" /\ ~db.app_data[res.file].present) =>
        /\ res.val = Err(<<FilePath(res.file), "none", "Unknown application", "L0003">>)
        /\ res.io = <<>>

\* the call in res is diff_tokens
DiffAsked == res.q = "diff_tokens"

\* the list old with the n tokens from token index at on replaced by data
Replaced(old, at, n, data) ==
    SubSeq(old, 1, at) \o data \o SubSeq(old, at + n + 1, Len(old))

\* C26: diff_tokens(old, new) returns the empty list exactly when
\* old = new, and otherwise exactly one edit such that replacing, in old,
\* the delete_count/5 tokens starting at token index start/5 by the data of
\* the edit yields new.
C26Thm ==
    DiffAsked =>
        /\ res.val = <<>> <=> res.old = res.new
        /\ res.old # res.new =>
              /\ Len(res.val) = 1
              /\ res.val[1].data # NONE
              /\ res.val[1].start % 5 = 0
              /\ res.val[1].delete_count % 5 = 0
              /\ res.val[1].start \div 5 + res.val[1].delete_count \div 5 <= Len(res.old)
              /\ Replaced(res.old, res.val[1].start \div 5, res.val[1].delete_count \div 5,
                          res.val[1].data.v) = res.new

\* test_diff_insert_in_middle, with the tokens of the model
C26Witness ==
    /\ DiffAsked
    /\ res.old = <<TokenA, TokenB>>
    /\ res.new = <<TokenA, TokenC, TokenC, TokenB>>
    /\ res.val = << [start |-> 5, delete_count |-> 0, data |-> Some(<<TokenC, TokenC>>)] >>

C26WitnessSame ==
    /\ DiffAsked
    /\ res.old = <<TokenA, TokenB>>
    /\ res.new = res.old
    /\ res.val = <<>>

\* the lengths k of a common beginning of a and b
CommonPrefixes(a, b) ==
    {k \in 0..Len(a) : k <= Len(b) /\ SubSeq(a, 1, k) = SubSeq(b, 1, k)}

\* the lengths k of a common end of a and b
CommonSuffixes(a, b) ==
    {k \in 0..Len(a) : k <= Len(b) /\ SubSeq(a, Len(a) - k + 1, Len(a)) = SubSeq(b, Len(b) - k + 1, Len(b))}

MaxOf(S) == CHOOSE x \in S : \A y \in S : y <= x

LongestPrefix == MaxOf(CommonPrefixes(res.old, res.new))
LongestSuffix ==
    MaxOf(CommonSuffixes(SubSeq(res.old, LongestPrefix + 1, Len(res.old)),
                         SubSeq(res.new, LongestPrefix + 1, Len(res.new))))

\* C27: the edit of diff_tokens(old, new) is in units of 5 per token:
\* start = 5 * p with p the length of the longest common prefix,
\* delete_count = 5 * (len(old) - p - s) and the data has len(new) - p - s
\* tokens, with s the length of the longest common suffix of what remains
\* after the prefix; p + s never exceeds the length of old or of new.
C27Thm ==
    DiffAsked =>
        /\ LongestPrefix + LongestSuffix <= Len(res.old)
        /\ LongestPrefix + LongestSuffix <= Len(res.new)
        /\ res.val # <<>> =>
              /\ res.val[1].start = 5 * LongestPrefix
              /\ res.val[1].delete_count = 5 * (Len(res.old) - LongestPrefix - LongestSuffix)
              /\ Len(res.val[1].data.v) = Len(res.new) - LongestPrefix - LongestSuffix
        /\ res.val = <<>> => LongestPrefix + LongestSuffix = Len(res.old)

\* test_diff_remove_from_middle, with the tokens of the model
C27Witness ==
    /\ DiffAsked
    /\ res.old = <<TokenA, TokenC, TokenC, TokenB>>
    /\ res.new = <<TokenA, TokenB>>
    /\ LongestPrefix = 1
    /\ LongestSuffix = 1
    /\ res.val = << [start |-> 5, delete_count |-> 10, data |-> Some(<<>>)] >>

\* a token repeated: the common end overlaps the common beginning
C27WitnessOverlap ==
    /\ DiffAsked
    /\ res.old = <<TokenA>>
    /\ res.new = <<TokenA, TokenA>>
    /\ LongestPrefix = 1
    /\ LongestSuffix = 0
    /\ res.val = << [start |-> 5, delete_count |-> 0, data |-> Some(<<TokenA>>)] >>

\* C28: whenever both custom_fun_specs(P) and custom_overloaded_fun_specs(P)
\* hold an entry for (M, X), fun_spec(P, M, X) returns none and
\* overloaded_fun_spec(P, M, X) returns none: neither override is returned,
\* nor the spec M itself gives for X.
C28Thm ==
    (/\ InMap(CustomPlain, res.module, res.id)
     /\ InMap(CustomOverloaded, res.module, res.id)) =>
        /\ res.q = "fun_spec" => res.val = Ok(NONE)
        /\ res.q = "overloaded_fun_spec" => res.val = Ok(NONE)

\* C28 happens: fun_spec answered none for an Id that both override maps
\* hold and that the module's own stub declares as a spec
C28Witness ==
    /\ res.q = "fun_spec"
    /\ InMap(CustomPlain, res.module, res.id)
    /\ InMap(CustomOverloaded, res.module, res.id)
    /\ IsSome(FromOwn(res.module, "specs", res.id))
    /\ res.val = Ok(NONE)

\* C28 happens for the other query: overloaded_fun_spec answered none for an
\* Id that both override maps hold
C28WitnessOverloaded ==
    /\ res.q = "overloaded_fun_spec"
    /\ InMap(CustomPlain, res.module, res.id)
    /\ InMap(CustomOverloaded, res.module, res.id)
    /\ IsSome(FromOwn(res.module, "overloaded_specs", res.id))
    /\ res.val = Ok(NONE)

CustomTypes == custom_types(db, disk, 0)

\* C29: whenever custom_types(P) holds an entry for (M, X), type_decl(P, M, X)
\* returns Ok with that entry, and whenever custom_overloaded_fun_specs(P)
\* holds an entry for (M, X), fun_spec(P, M, X) returns Ok(none), whatever
\* transitive_stub(P, M) returns; and type_decl or fun_spec return the error
\* of transitive_stub(P, M) only when the override maps they read are Ok and
\* hold no entry for (M, X).
C29Thm ==
    /\ res.q = "type_decl" =>
          /\ InMap(CustomTypes, res.module, res.id) =>
                res.val = Ok(GetIn(CustomTypes.val, res.module, res.id))
          /\ (IsOk(CustomTypes) /\ ~IsOk(res.val)) =>
                /\ res.val = OwnStub(res.module)
                /\ ~InMap(CustomTypes, res.module, res.id)
    /\ res.q = "fun_spec" =>
          /\ InMap(CustomOverloaded, res.module, res.id) => res.val = Ok(NONE)
          /\ (IsOk(CustomOverloaded) /\ IsOk(CustomPlain) /\ ~IsOk(res.val)) =>
                /\ res.val = OwnStub(res.module)
                /\ ~InMap(CustomOverloaded, res.module, res.id)
                /\ ~InMap(CustomPlain, res.module, res.id)

\* C29 happens: type_decl answered with the override of a module that is
\* absent from the module index
C29Witness ==
    /\ res.q = "type_decl"
    /\ InMap(CustomTypes, res.module, res.id)
    /\ ~IsOk(OwnStub(res.module))
    /\ OwnStub(res.module).val.kind = "ModuleNotFound"
    /\ IsSome(res.val)

\* C29 happens for fun_spec: none is answered for an Id of the custom
\* overloaded specs while the module's own stub is an error
C29WitnessSpec ==
    /\ res.q = "fun_spec"
    /\ InMap(CustomOverloaded, res.module, res.id)
    /\ OwnStub(res.module).tag = "Err"
    /\ res.val = Ok(NONE)

\* C29 happens for the error: the override map is Ok without an entry and
\* type_decl answers with the error of the module's own stub
C29WitnessErr ==
    /\ res.q = "type_decl"
    /\ IsOk(CustomTypes)
    /\ CustomTypes.val # EmptyMap
    /\ res.val.tag = "Err"

\* the pipeline of a reserved module failed with an error other than
\* ModuleNotFound
OtherError(r) == r.tag = "Err" /\ r.val.kind # "ModuleNotFound"

\* C30: whenever transitive_stub(P, eqwalizer_types) is an error e other than
\* ModuleNotFound, custom_types(P) returns e and type_decl(P, M, X) returns e
\* for every M and X; whenever transitive_stub(P, eqwalizer_specs) is such an
\* error e, custom_fun_specs(P), custom_overloaded_fun_specs(P),
\* fun_spec(P, M, X) and overloaded_fun_spec(P, M, X) return e, whatever M's
\* own transitive stub is.
C30Thm ==
    /\ OtherError(TypesStub) =>
          (res.q \in {"custom_types", "type_decl"} => res.val = TypesStub)
    /\ OtherError(SpecsStub) =>
          (res.q \in {"custom_fun_specs", "custom_overloaded_fun_specs",
                      "fun_spec", "overloaded_fun_spec"} => res.val = SpecsStub)

\* C30 happens: type_decl answered with the error of eqwalizer_types for an
\* Id that the module's own stub, which is Ok, declares
C30Witness ==
    /\ res.q = "type_decl"
    /\ OtherError(TypesStub)
    /\ IsSome(FromOwn(res.module, "types", res.id))
    /\ res.val = TypesStub

\* C30 happens for the specs: fun_spec answered with the error of
\* eqwalizer_specs for an Id that the module's own stub declares
C30WitnessSpec ==
    /\ res.q = "fun_spec"
    /\ OtherError(SpecsStub)
    /\ IsSome(FromOwn(res.module, "specs", res.id))
    /\ res.val = SpecsStub

\* C30 happens for the map: custom_overloaded_fun_specs answered with the
\* error of eqwalizer_specs
C30WitnessMap ==
    /\ res.q = "custom_overloaded_fun_specs"
    /\ OtherError(SpecsStub)
    /\ res.val = SpecsStub

\* C31: whenever the transitive stub of the reserved module is Ok, the
\* custom_* query that reads it returns an Ok map or an Err and does not
\* abort, also when the stub holds an entry under a name without a colon.
C31Original ==
    (res.q \in CustomQueries /\ IsOk(ReservedField(res.q).stub)) =>
        res.val.tag \in {"Ok", "Err"}

\* the last text staged for file f in the list files_changed
LastStaged(fc, f) ==
    LET is == {i \in DOMAIN fc : fc[i][1] = f}
        last == CHOOSE i \in is : \A j \in is : j <= i
    IN  fc[last][2]

\* C32: after apply, the text of every file staged with change_file is the
\* text of the last call staged for it (the empty string if that call passed
\* None); the roots installed are those of the last set_roots call and the
\* other roots and files are as they were before apply; the application
\* structure installed is that of the last set_app_structure call.
C32Thm ==
    tx.pc = "done" =>
        /\ \A i \in DOMAIN tx.calls :
              LET last == LastStaged(tx.change.files_changed, tx.calls[i])
              IN  db.file_text[tx.calls[i]] =
                      IF last = NONE THEN BlankText ELSE last.v
        /\ tx.setters.roots # NONE =>
              LET R == tx.setters.roots.v
              IN  /\ \A i \in 0 .. Len(R) - 1 : db.source_root[i] = R[i + 1]
                  /\ \A i \in DOMAIN db.source_root :
                        i >= Len(R) =>
                            /\ i \in DOMAIN tx.before.source_root
                            /\ db.source_root[i] = tx.before.source_root[i]
                  /\ \A f \in DOMAIN db.file_source_root :
                        IF \E i \in DOMAIN R : f \in R[i]
                        THEN f \in R[db.file_source_root[f] + 1]
                        ELSE db.file_source_root[f] = tx.before.file_source_root[f]
        /\ tx.setters.app_structure # NONE =>
              db.app_data = tx.setters.app_structure.v

\* C32 happens: apply has returned from a Change in which change_file was
\* called for f1 with a text and then with None, and set_roots and
\* set_app_structure were called more than once
C32Witness ==
    /\ tx.pc = "done"
    /\ tx.change.files_changed = << <<"f1", Some(ChangeText)>>, <<"f1", NONE>> >>
    /\ tx.setters.roots_n = 2
    /\ tx.setters.app_structure_n = 2
    /\ db.file_text["f1"] = BlankText
    /\ db.source_root # tx.before.source_root
    /\ db.app_data # tx.before.app_data

\* C32 happens in the other order: the last call for f1 gives it a text
C32WitnessText ==
    /\ tx.pc = "done"
    /\ tx.change.files_changed = << <<"f1", NONE>>, <<"f1", Some(ChangeText)>> >>
    /\ tx.before.file_text["f1"] = BlankText
    /\ db.file_text["f1"] = ChangeText

\* the structured query a byte-form query mirrors, on the same arguments
Structured(q, m, x) ==
    CASE q = "type_decl_bytes" -> type_decl(db, disk, 0, m, x)
      [] q = "rec_decl_bytes" -> rec_decl(db, disk, 0, m, x)
      [] q = "fun_spec_bytes" -> fun_spec(db, disk, 0, m, x)
      [] q = "overloaded_fun_spec_bytes" -> overloaded_fun_spec(db, disk, 0, m, x)

\* C33: a byte-form lookup returns the error of its structured lookup when
\* that returns an error, Ok(none) when that returns Ok(none), and Ok of the
\* encoding of the declaration when that returns Ok of a declaration (the
\* custom override when one applies), and it aborts when the structured
\* lookup aborts; transitive_stub_bytes returns the error of transitive_stub
\* or Ok of the encoding of the stub.
C33Thm ==
    /\ res.q \in BytesQueries =>
          LET r == Structured(res.q, res.module, res.id)
          IN  /\ r.tag = "Err" => res.val = r
              /\ r.tag = "Panic" => res.val.tag = "Panic"
              /\ r = Ok(NONE) => res.val = Ok(NONE)
              /\ IsSome(r) => res.val = Ok(Some(to_bytes(r.val.v)))
              /\ res.val.tag = "Err" => r.tag = "Err"
              /\ res.val = Ok(NONE) => r = Ok(NONE)
    /\ (res.q = "type_decl_bytes" /\ InMap(CustomTypes, res.module, res.id)) =>
          res.val = Ok(Some(to_bytes(GetIn(CustomTypes.val, res.module, res.id).v)))
    /\ (res.q = "fun_spec_bytes" /\ IsOk(CustomOverloaded)
           /\ ~InMap(CustomOverloaded, res.module, res.id)
           /\ InMap(CustomPlain, res.module, res.id)) =>
          res.val = Ok(Some(to_bytes(GetIn(CustomPlain.val, res.module, res.id).v)))
    /\ res.q = "transitive_stub_bytes" =>
          LET stub == OwnStub(res.module)
          IN  res.val = IF IsOk(stub) THEN Ok(to_bytes(stub.val)) ELSE stub

\* C33 happens: type_decl_bytes answered with the encoding of the custom
\* override of a type that the module itself declares otherwise
C33Witness ==
    /\ res.q = "type_decl_bytes"
    /\ InMap(CustomTypes, res.module, res.id)
    /\ IsSome(FromOwn(res.module, "types", res.id))
    /\ FromOwn(res.module, "types", res.id).val # GetIn(CustomTypes.val, res.module, res.id)
    /\ IsSome(res.val)

\* C33 happens for an error: fun_spec_bytes answered with the error of
\* fun_spec
C33WitnessErr ==
    /\ res.q = "fun_spec_bytes"
    /\ res.val.tag = "Err"

\* C33 happens for none: overloaded_fun_spec_bytes answered Ok(none) for an
\* Id of the custom plain specs
C33WitnessNone ==
    /\ res.q = "overloaded_fun_spec_bytes"
    /\ InMap(CustomPlain, res.module, res.id)
    /\ res.val = Ok(NONE)

\* C33 happens for the stub: transitive_stub_bytes answered with the
\* encoding of a stub
C33WitnessStub ==
    /\ res.q = "transitive_stub_bytes"
    /\ IsOk(res.val)
    /\ res.val.val = to_bytes(OwnStub(res.module).val)

\* module a is indexed and its stub is decoded from a .beam file
BeamBacked ==
    LET file == file_for_module(db, 0, ModA)
    IN  file # NONE /\ from_beam_path(db, file.v, ModA) # NONE

\* the step in which the client reads fact k, memoized and validated in the
\* current revision: no Change was applied since
ReadWithoutChange(k) ==
    /\ res = NoRes
    /\ res'.q = k[1]
    /\ ResKey' = k
    /\ memo[k].present
    /\ memo[k].verified_at = rev

\* C34: the memoized converted stub of a module decoded from a .beam file
\* records the application structure as its only input; and a read of the
\* converted or of the transitive stub of such a module, memoized and with
\* no Change applied since, returns the memoized result and computes
\* nothing, whatever was written to the .beam file in between.
C34Thm ==
    /\ [](LET k == StubKey("converted_stub", ModA)
          IN  (BeamBacked /\ memo[k].present /\ memo[k].verified_at = rev)
                  => Reads(memo, k) = {AppStructureInput})
    /\ [][\A k \in BeamQueries :
            (BeamBacked /\ ReadWithoutChange(k)) =>
                /\ executed' = {}
                /\ res'.val = memo[k].value
                /\ memo' = memo]_vars

\* C34 happens: the .beam file of module a was written after its converted
\* stub was memoized, no Change was applied, and the read returned the
\* memoized error and not the stub the file now holds
C34Witness ==
    /\ res.q = "converted_stub"
    /\ BeamBacked
    /\ executed = {}
    /\ memo[ResKey].runs = 1
    /\ res.val = memo[ResKey].value
    /\ res.val.tag = "Err"
    /\ IsOk(Derive(ResKey))

\* C34 happens for a later stage: the transitive stub returned from the
\* memo is not the one the .beam file now gives
C34WitnessLater ==
    /\ res.q = "transitive_stub"
    /\ BeamBacked
    /\ executed = {}
    /\ IsOk(res.val)
    /\ res.val = memo[ResKey].value
    /\ ~SameValue(res.val, Derive(ResKey))

\* start position a is not after start position b, in (line, character)
NotAfter(a, b) ==
    \/ a.line < b.line
    \/ a.line = b.line /\ a.character <= b.character

\* the ranges pushed are single-line and their starts are non-decreasing
OrderedSingleLine(pushed) ==
    /\ \A i \in DOMAIN pushed : SingleLine(pushed[i])
    /\ \A i \in DOMAIN pushed :
          i > 1 => NotAfter(pushed[i - 1].start, pushed[i].start)

RECURSIVE Accumulated(_, _)
\* the absolute start of token i of the list data, by adding up the deltas
\* as a reader of the tokens does
Accumulated(data, i) ==
    IF i = 1 THEN Position(data[1].delta_line, data[1].delta_start)
    ELSE LET prev == Accumulated(data, i - 1)
         IN  Position(prev.line + data[i].delta_line,
                      IF data[i].delta_line = 0
                      THEN prev.character + data[i].delta_start
                      ELSE data[i].delta_start)

\* C35: after pushes of single-line ranges with non-decreasing starts no
\* push has aborted, the builder holds one token for every push, the first
\* with the absolute line and character, every later one with
\* delta_line = line - previous line and delta_start = character - previous
\* character when delta_line = 0 and the absolute character otherwise,
\* length = end character - start character, no field is a wrapped
\* difference, and adding up the deltas gives every token's start.
C35Thm ==
    OrderedSingleLine(builder.pushed) =>
        LET data == builder.data
            pushed == builder.pushed
        IN  /\ ~builder.aborted
            /\ Len(data) = Len(pushed)
            /\ \A i \in DOMAIN pushed :
                  LET start == pushed[i].start
                  IN  /\ data[i].delta_line =
                            IF i = 1 THEN start.line
                            ELSE start.line - pushed[i - 1].start.line
                      /\ data[i].delta_start =
                            IF i > 1 /\ data[i].delta_line = 0
                            THEN start.character - pushed[i - 1].start.character
                            ELSE start.character
                      /\ data[i].length = pushed[i].end.character - start.character
                      /\ data[i].delta_line >= 0
                      /\ data[i].delta_start >= 0
                      /\ data[i].length >= 0
                      /\ Accumulated(data, i) = start

\* C35 happens: three tokens were pushed, two on one line and one on the
\* next line at a smaller character
C35Witness ==
    /\ Len(builder.pushed) = 3
    /\ OrderedSingleLine(builder.pushed)
    /\ builder.pushed[1].start = Position(0, 1)
    /\ builder.pushed[2].start = Position(0, 2)
    /\ builder.pushed[3].start = Position(1, 0)
    /\ builder.data[2].delta_start = 1
    /\ builder.data[3].delta_line = 1
    /\ builder.data[3].delta_start = 0

\* outside the case of C35 a subtraction overflows: a token pushed before
\* the one pushed last wraps or aborts the push
C35WitnessUnordered ==
    /\ ~OrderedSingleLine(builder.pushed)
    /\ builder.aborted

====
